---- MODULE Spec2Model ----
(***************************************************************************)
(* Model of the iron condor search of trade_lab                            *)
(* (qc/spxw_1dte_baseline/IronCondorFinder.py, qc/spxw_1dte/util.py,       *)
(* trade_lab/qc/SPXW1DTEIronCondor_v0.py).                                 *)
(*                                                                         *)
(* Units.  Strikes are whole index points.  Prices (bid, ask, credit,      *)
(* spx_price) are integer cents, so round(x, 2) of a difference of quotes  *)
(* is exact.  Deltas are integer thousandths and keep their sign (puts are *)
(* negative) until the code takes abs().  A ratio threshold r is the pair  *)
(* [num, den] with r = num / den and den > 0; "a / b >= r" is evaluated    *)
(* exactly by cross multiplication.                                        *)
(***************************************************************************)
EXTENDS Integers, Sequences, FiniteSets, TLC

VARIABLES
    contracts,        \* find_iron_condor argument: the option chain (a set of contracts)
    spx_price,        \* find_iron_condor argument: underlying price, cents
    cfg,              \* the IronCondorFinder instance attributes
    pc,               \* position of the running call: "start", "loop", "done", other specs' labels
    calls,            \* local `calls` of find_iron_condor / tweak_strategy (ascending strike)
    puts,             \* local `puts` (descending strike)
    call_spread,      \* local `call_spread` of tweak_strategy
    put_spread,       \* local `put_spread` of tweak_strategy
    tweak_attempts,   \* local `tweak_attempts` of tweak_strategy
    result,           \* what the call returned (or raised)
    hist,             \* record of the last loop iteration (observation only)
    probe,            \* arguments / outcome of the pure function under study
    algo,             \* the SPXW1DTEIronCondor instance attributes (trade and flags)
    now,              \* self.time: day number and hour of the day, and the scheduled
                      \* handlers the engine has already called at this time
    market,           \* the current slice: SPX price and the quotes of every expiry
    tick,             \* record of the last handler run (observation only)
    ledger,           \* the credits the open trade received: at entry and by each roll
                      \* (observation only)
    schedule          \* the one-time callbacks registered with self.schedule.on that
                      \* the engine has not called yet

vars == <<contracts, spx_price, cfg, pc, calls, puts, call_spread, put_spread,
          tweak_attempts, result, hist, probe, algo, now, market, tick, ledger, schedule>>

---------------------------------------------------------------------------
(* Bounds of the model *)

\* call strikes are Spot + 5*i, put strikes Spot - 5*i, i in 0..NumStrikes
NumStrikes == 6
\* max_tweak_attempts is drawn from 0..MaxTweakAttempts
MaxTweakAttempts == 3

---------------------------------------------------------------------------
(* Python built-ins used by the code *)

Abs(x) == IF x < 0 THEN -x ELSE x

Min2(a, b) == IF b < a THEN b ELSE a

Max2(a, b) == IF b > a THEN b ELSE a

\* round(n / d) for d > 0: Python 3 rounds halves to the even integer
RoundHalfEven(n, d) ==
    LET q == n \div d
        r == n % d
    IN  IF 2 * r < d THEN q
        ELSE IF 2 * r > d THEN q + 1
        ELSE IF q % 2 = 0 THEN q ELSE q + 1

\* Python None
None == [side |-> "None"]

IsNone(s) == s.side = "None"

\* index of the first element of seq with the given strike, 0 when there is none:
\* next((c for c in seq if c.strike == k), None)
FirstAtStrike(seq, k) ==
    IF \E i \in DOMAIN seq : seq[i].strike = k
    THEN CHOOSE i \in DOMAIN seq :
            /\ seq[i].strike = k
            /\ \A j \in DOMAIN seq : seq[j].strike = k => i <= j
    ELSE 0

\* min() keeping the last of the equally near elements instead of the first
NearestToStrikeLast(seq, k) ==
    CHOOSE i \in DOMAIN seq :
        \A j \in DOMAIN seq :
            \/ Abs(seq[i].strike - k) < Abs(seq[j].strike - k)
            \/ (Abs(seq[i].strike - k) = Abs(seq[j].strike - k) /\ i >= j)

\* index of min(seq, key=lambda x: abs(x.strike - k)): the first minimal element
NearestToStrike(seq, k) ==
    CHOOSE i \in DOMAIN seq :
        \A j \in DOMAIN seq :
            \/ Abs(seq[i].strike - k) < Abs(seq[j].strike - k)
            \/ (Abs(seq[i].strike - k) = Abs(seq[j].strike - k) /\ i <= j)

\* sorted(S, key=lambda x: x.strike); the chain holds one contract per strike and right
RECURSIVE SortAsc(_)
SortAsc(S) ==
    IF S = {} THEN <<>>
    ELSE LET m == CHOOSE x \in S : \A y \in S : x.strike <= y.strike
         IN  <<m>> \o SortAsc(S \ {m})

\* sorted(S, key=lambda x: x.strike, reverse=True)
RECURSIVE SortDesc(_)
SortDesc(S) ==
    IF S = {} THEN <<>>
    ELSE LET m == CHOOSE x \in S : \A y \in S : x.strike >= y.strike
         IN  <<m>> \o SortDesc(S \ {m})

---------------------------------------------------------------------------
(* Spread construction: IronCondorFinder.py *)

\* the dict a builder returns
Spread(short_leg, long_leg, side) ==
    [short_leg |-> short_leg,
     long_leg  |-> long_leg,
     price     |-> short_leg.bid - long_leg.ask,
     delta     |-> Abs(short_leg.delta),
     side      |-> side]

\* an exception leaving the function
Fault == [side |-> "Fault"]

IsSpread(s) == s.side \in {"CALL", "PUT"}

\* build_spread with the long leg taken from the whole list, not only from the
\* contracts beyond the short leg
build_spread_any_long(cs, short_strike, side, width) ==
    IF cs = <<>> THEN None
    ELSE
      LET exact      == FirstAtStrike(cs, short_strike)
          short_leg  == IF exact # 0 THEN cs[exact] ELSE cs[NearestToStrike(cs, short_strike)]
          target_long_strike == IF side = "CALL"
                                THEN short_leg.strike + width
                                ELSE short_leg.strike - width
          lexact     == FirstAtStrike(cs, target_long_strike)
          long_leg   == IF lexact # 0 THEN cs[lexact]
                        ELSE cs[NearestToStrike(cs, target_long_strike)]
      IN  Spread(short_leg, long_leg, side)

\* IronCondorFinder.build_spread(contracts, short_strike, side), self.spread_width = width
build_spread(cs, short_strike, side, width) ==
    IF cs = <<>> THEN None
    ELSE
      LET exact      == FirstAtStrike(cs, short_strike)
          short_leg  == IF exact # 0 THEN cs[exact] ELSE cs[NearestToStrike(cs, short_strike)]
          valid_longs == IF side = "CALL"
                         THEN SelectSeq(cs, LAMBDA c : c.strike > short_leg.strike)
                         ELSE SelectSeq(cs, LAMBDA c : c.strike < short_leg.strike)
          target_long_strike == IF side = "CALL"
                                THEN short_leg.strike + width
                                ELSE short_leg.strike - width
      IN  IF valid_longs = <<>> THEN None
          ELSE
            LET lexact   == FirstAtStrike(valid_longs, target_long_strike)
                long_leg == IF lexact # 0 THEN valid_longs[lexact]
                            ELSE valid_longs[NearestToStrike(valid_longs, target_long_strike)]
            IN  Spread(short_leg, long_leg, side)

\* IronCondorFinder.move_spread_up(spread, contracts, points): toward at-the-money
move_spread_up(spread, cs, points, width) ==
    LET new_short_strike == IF spread.side = "CALL"
                            THEN spread.short_leg.strike - points
                            ELSE spread.short_leg.strike + points
    IN  build_spread(cs, new_short_strike, spread.side, width)

\* IronCondorFinder.move_spread_away(spread, contracts, points): away from at-the-money
move_spread_away(spread, cs, points, width) ==
    LET new_short_strike == IF spread.side = "CALL"
                            THEN spread.short_leg.strike + points
                            ELSE spread.short_leg.strike - points
    IN  build_spread(cs, new_short_strike, spread.side, width)

\* index of min(seq, key=lambda x: abs(x.strike - spx_price)), spx in cents
NearestToSpot(seq, spx) ==
    CHOOSE i \in DOMAIN seq :
        \A j \in DOMAIN seq :
            \/ Abs(100 * seq[i].strike - spx) < Abs(100 * seq[j].strike - spx)
            \/ (Abs(100 * seq[i].strike - spx) = Abs(100 * seq[j].strike - spx) /\ i <= j)

\* IronCondorFinder.calculate_straddle_price(contracts, spx_price): whole points
calculate_straddle_price(chain, spx) ==
    LET cl == SelectSeq(chain, LAMBDA c : c.right = "CALL")
        pl == SelectSeq(chain, LAMBDA c : c.right = "PUT")
        call_atm == cl[NearestToSpot(cl, spx)]
        put_atm  == pl[NearestToSpot(pl, spx)]
    IN  RoundHalfEven(call_atm.ask + put_atm.ask, 100)

\* find_initial_spread that takes the nearest listed long leg when the one
\* spread_width away is missing
find_initial_spread_nearest_long(cs, spx, straddle_price, side, width) ==
    LET target_cents  == IF side = "CALL"
                         THEN spx + 100 * (2 * straddle_price)
                         ELSE spx - 100 * (2 * straddle_price)
        target_strike == RoundHalfEven(target_cents, 500) * 5
    IN  IF cs = <<>> THEN Fault
        ELSE
          LET exact     == FirstAtStrike(cs, target_strike)
              short_leg == IF exact # 0 THEN cs[exact] ELSE cs[NearestToStrike(cs, target_strike)]
              long_strike == IF side = "CALL"
                             THEN short_leg.strike + width
                             ELSE short_leg.strike - width
              lexact    == FirstAtStrike(cs, long_strike)
          IN  IF lexact = 0 THEN Spread(short_leg, cs[NearestToStrike(cs, long_strike)], side)
              ELSE Spread(short_leg, cs[lexact], side)

\* IronCondorFinder.find_initial_spread(contracts, spx_price, straddle_price, side)
find_initial_spread(cs, spx, straddle_price, side, width) ==
    LET target_cents  == IF side = "CALL"
                         THEN spx + 100 * (2 * straddle_price)
                         ELSE spx - 100 * (2 * straddle_price)
        target_strike == RoundHalfEven(target_cents, 500) * 5
    IN  IF cs = <<>> THEN Fault   \* min() of an empty list raises ValueError
        ELSE
          LET exact     == FirstAtStrike(cs, target_strike)
              short_leg == IF exact # 0 THEN cs[exact] ELSE cs[NearestToStrike(cs, target_strike)]
              long_strike == IF side = "CALL"
                             THEN short_leg.strike + width
                             ELSE short_leg.strike - width
              lexact    == FirstAtStrike(cs, long_strike)
          IN  IF lexact = 0 THEN None
              ELSE Spread(short_leg, cs[lexact], side)

---------------------------------------------------------------------------
(* Balance predicates *)

\* smaller / larger >= ratio for larger # 0, by exact rational arithmetic
RatioAtLeast(smaller, larger, ratio) ==
    IF larger > 0
    THEN smaller * ratio.den >= ratio.num * larger
    ELSE smaller * ratio.den <= ratio.num * larger

\* is_credit_balanced with > where the code has >=
is_credit_balanced_strict(call_credit, put_credit, ratio) ==
    LET smaller == Min2(call_credit, put_credit)
        larger  == Max2(call_credit, put_credit)
    IN  IF larger = 0 THEN FALSE
        ELSE IF larger > 0
        THEN smaller * ratio.den > ratio.num * larger
        ELSE smaller * ratio.den < ratio.num * larger

\* IronCondorFinder.is_credit_balanced(call_credit, put_credit)
is_credit_balanced(call_credit, put_credit, ratio) ==
    LET smaller == Min2(call_credit, put_credit)
        larger  == Max2(call_credit, put_credit)
    IN  IF larger = 0 THEN FALSE
        ELSE RatioAtLeast(smaller, larger, ratio)

\* IronCondorFinder.is_delta_balanced(call_delta, put_delta)
is_delta_balanced(call_delta, put_delta, ratio) ==
    LET smaller == Min2(call_delta, put_delta)
        larger  == Max2(call_delta, put_delta)
    IN  IF larger = 0 THEN FALSE
        ELSE RatioAtLeast(smaller, larger, ratio)

---------------------------------------------------------------------------
(* The condor search: IronCondorFinder.tweak_strategy *)

\* the step of every move in tweak_strategy, in strike points
TweakPoints == 5

\* FailingCheck without check 5 (total delta)
FailingCheckNoTotalDelta(cs, ps, c) ==
    LET strategy_price == cs.price + ps.price
    IN  IF strategy_price < c.min_credit THEN 1
        ELSE IF strategy_price > c.max_credit THEN 2
        ELSE IF cs.delta > c.max_call_delta THEN 3
        ELSE IF ps.delta > c.max_put_delta THEN 4
        ELSE IF ~is_credit_balanced(cs.price, ps.price, c.credit_balance_ratio) THEN 6
        ELSE IF ~is_delta_balanced(cs.delta, ps.delta, c.delta_ratio) THEN 7
        ELSE 0

\* FailingCheck with >= where checks 3 and 4 have >
FailingCheckDeltaInclusive(cs, ps, c) ==
    LET strategy_price == cs.price + ps.price
        total_delta    == cs.delta + ps.delta
    IN  IF strategy_price < c.min_credit THEN 1
        ELSE IF strategy_price > c.max_credit THEN 2
        ELSE IF cs.delta >= c.max_call_delta THEN 3
        ELSE IF ps.delta >= c.max_put_delta THEN 4
        ELSE IF total_delta > c.max_total_delta THEN 5
        ELSE IF ~is_credit_balanced(cs.price, ps.price, c.credit_balance_ratio) THEN 6
        ELSE IF ~is_delta_balanced(cs.delta, ps.delta, c.delta_ratio) THEN 7
        ELSE 0

\* FailingCheck with the delta checks 3 and 4 tested before the credit checks 1 and 2
FailingCheckDeltaFirst(cs, ps, c) ==
    LET strategy_price == cs.price + ps.price
        total_delta    == cs.delta + ps.delta
    IN  IF cs.delta > c.max_call_delta THEN 3
        ELSE IF ps.delta > c.max_put_delta THEN 4
        ELSE IF strategy_price < c.min_credit THEN 1
        ELSE IF strategy_price > c.max_credit THEN 2
        ELSE IF total_delta > c.max_total_delta THEN 5
        ELSE IF ~is_credit_balanced(cs.price, ps.price, c.credit_balance_ratio) THEN 6
        ELSE IF ~is_delta_balanced(cs.delta, ps.delta, c.delta_ratio) THEN 7
        ELSE 0

\* the first `if` of one loop iteration whose condition is true, 0 when none is:
\* the chain of if ... continue statements of tweak_strategy
FailingCheck(cs, ps, c) ==
    LET strategy_price == cs.price + ps.price
        total_delta    == cs.delta + ps.delta
    IN  IF strategy_price < c.min_credit THEN 1
        ELSE IF strategy_price > c.max_credit THEN 2
        ELSE IF cs.delta > c.max_call_delta THEN 3
        ELSE IF ps.delta > c.max_put_delta THEN 4
        ELSE IF total_delta > c.max_total_delta THEN 5
        ELSE IF ~is_credit_balanced(cs.price, ps.price, c.credit_balance_ratio) THEN 6
        ELSE IF ~is_delta_balanced(cs.delta, ps.delta, c.delta_ratio) THEN 7
        ELSE 0

\* a move that keeps the old spread when the build fails
MoveKeepOnFailure(dir, spread, cs, c) ==
    LET built == IF dir = "up"
                 THEN move_spread_up(spread, cs, TweakPoints, c.spread_width)
                 ELSE move_spread_away(spread, cs, TweakPoints, c.spread_width)
    IN  IF IsNone(built) THEN spread ELSE built

\* one call of move_spread_up / move_spread_away as the loop makes it
Move(dir, spread, cs, c) ==
    IF dir = "up"
    THEN move_spread_up(spread, cs, TweakPoints, c.spread_width)
    ELSE move_spread_away(spread, cs, TweakPoints, c.spread_width)

\* MovesOfCheck with check 1 moving the side with the larger credit
MovesOfCheckDearerOnMinCredit(k, cs, ps) ==
    CASE k = 1 -> IF cs.price > ps.price THEN << <<"CALL", "up">> >> ELSE << <<"PUT", "up">> >>
      [] k = 2 -> IF cs.price > ps.price THEN << <<"CALL", "away">> >> ELSE << <<"PUT", "away">> >>
      [] k = 3 -> << <<"CALL", "away">> >>
      [] k = 4 -> << <<"PUT", "away">> >>
      [] k = 5 -> IF cs.delta > ps.delta THEN << <<"CALL", "away">> >> ELSE << <<"PUT", "away">> >>
      [] k = 6 -> IF cs.price < ps.price THEN << <<"CALL", "up">> >> ELSE << <<"PUT", "up">> >>
      [] k = 7 -> IF cs.delta < ps.delta
                  THEN << <<"CALL", "up">>, <<"PUT", "away">> >>
                  ELSE << <<"PUT", "up">>, <<"CALL", "away">> >>
      [] OTHER -> << >>

\* MovesOfCheck with check 6 moving both sides, as check 7 does
MovesOfCheckBothOnCreditBalance(k, cs, ps) ==
    CASE k = 1 -> IF cs.price < ps.price THEN << <<"CALL", "up">> >> ELSE << <<"PUT", "up">> >>
      [] k = 2 -> IF cs.price > ps.price THEN << <<"CALL", "away">> >> ELSE << <<"PUT", "away">> >>
      [] k = 3 -> << <<"CALL", "away">> >>
      [] k = 4 -> << <<"PUT", "away">> >>
      [] k = 5 -> IF cs.delta > ps.delta THEN << <<"CALL", "away">> >> ELSE << <<"PUT", "away">> >>
      [] k = 6 -> IF cs.price < ps.price
                  THEN << <<"CALL", "up">>, <<"PUT", "away">> >>
                  ELSE << <<"PUT", "up">>, <<"CALL", "away">> >>
      [] k = 7 -> IF cs.delta < ps.delta
                  THEN << <<"CALL", "up">>, <<"PUT", "away">> >>
                  ELSE << <<"PUT", "up">>, <<"CALL", "away">> >>
      [] OTHER -> << >>

\* the body of the `if` numbered k: the moves it makes, in the order it makes them
MovesOfCheck(k, cs, ps) ==
    CASE k = 1 -> IF cs.price < ps.price THEN << <<"CALL", "up">> >> ELSE << <<"PUT", "up">> >>
      [] k = 2 -> IF cs.price > ps.price THEN << <<"CALL", "away">> >> ELSE << <<"PUT", "away">> >>
      [] k = 3 -> << <<"CALL", "away">> >>
      [] k = 4 -> << <<"PUT", "away">> >>
      [] k = 5 -> IF cs.delta > ps.delta THEN << <<"CALL", "away">> >> ELSE << <<"PUT", "away">> >>
      [] k = 6 -> IF cs.price < ps.price THEN << <<"CALL", "up">> >> ELSE << <<"PUT", "up">> >>
      [] k = 7 -> IF cs.delta < ps.delta
                  THEN << <<"CALL", "up">>, <<"PUT", "away">> >>
                  ELSE << <<"PUT", "up">>, <<"CALL", "away">> >>
      [] OTHER -> << >>

\* the spread of `side` after the moves ms were applied to the pair (cs, ps)
AfterMoves(side, ms, cs, ps, cl, pl, c) ==
    LET mine == SelectSeq(ms, LAMBDA m : m[1] = side)
        old  == IF side = "CALL" THEN cs ELSE ps
        pool == IF side = "CALL" THEN cl ELSE pl
    IN  IF mine = << >> THEN old ELSE Move(mine[1][2], old, pool, c)

\* hist: kind is "none" before the first iteration, then what the last iteration
\* did: "abort" (line 133), "move" (an if ... continue), "pass" (line 190); check
\* and moves are the `if` taken and its moves; pre_call / pre_put the pair the
\* iteration started from; in_call / in_put the arguments of tweak_strategy;
\* evaluated counts the iterations that reached check 1
NoHist ==
    [kind |-> "none", check |-> 0, moves |-> << >>, pre_call |-> None, pre_put |-> None,
     in_call |-> None, in_put |-> None, evaluated |-> 0]

NoResult == [kind |-> "pending"]

\* `return None` at the given source line
ReturnNone(line) == [kind |-> "none", line |-> line]

\* the loop condition with <= where the code has <
LoopConditionInclusive(attempts, max_attempts) == attempts <= max_attempts

\* `while tweak_attempts < self.max_tweak_attempts`
LoopCondition(attempts, max_attempts) == attempts < max_attempts

\* `if not call_spread or not put_spread` at the top of the loop body
MissingSpread(cs, ps) == IsNone(cs) \/ IsNone(ps)

\* one iteration of `while tweak_attempts < self.max_tweak_attempts`
TweakIteration ==
    /\ pc = "loop"
    /\ LoopCondition(tweak_attempts, cfg.max_tweak_attempts)
    /\ tweak_attempts' = tweak_attempts + 1
    /\ IF MissingSpread(call_spread, put_spread)
       THEN /\ result' = ReturnNone(133)
            /\ pc' = "done"
            /\ hist' = [hist EXCEPT !.kind = "abort", !.check = 0, !.moves = << >>,
                                    !.pre_call = call_spread, !.pre_put = put_spread]
            /\ UNCHANGED <<call_spread, put_spread>>
       ELSE LET k  == FailingCheck(call_spread, put_spread, cfg)
                ms == MovesOfCheck(k, call_spread, put_spread)
            IN  /\ hist' = [hist EXCEPT !.kind = IF k = 0 THEN "pass" ELSE "move",
                                        !.check = k, !.moves = ms,
                                        !.pre_call = call_spread, !.pre_put = put_spread,
                                        !.evaluated = hist.evaluated + 1]
                /\ IF k = 0
                   THEN /\ result' = [kind |-> "ok", call_spread |-> call_spread,
                                      put_spread |-> put_spread, n |-> tweak_attempts']
                        /\ pc' = "done"
                        /\ UNCHANGED <<call_spread, put_spread>>
                   ELSE /\ call_spread' = AfterMoves("CALL", ms, call_spread, put_spread,
                                                     calls, puts, cfg)
                        /\ put_spread' = AfterMoves("PUT", ms, call_spread, put_spread,
                                                    calls, puts, cfg)
                        /\ UNCHANGED <<result, pc>>
    /\ UNCHANGED <<contracts, spx_price, cfg, calls, puts, probe, algo, now, market, tick, ledger,
                   schedule>>

\* the loop condition is false: the `return None` after the loop
TweakExhausted ==
    /\ pc = "loop"
    /\ ~LoopCondition(tweak_attempts, cfg.max_tweak_attempts)
    /\ result' = ReturnNone(192)
    /\ pc' = "done"
    /\ UNCHANGED <<contracts, spx_price, cfg, calls, puts, call_spread, put_spread,
                   tweak_attempts, hist, probe, algo, now, market, tick, ledger, schedule>>

\* the set of elements of a sequence
Range(seq) == {seq[i] : i \in DOMAIN seq}

\* IronCondorFinder.find_iron_condor up to the call of tweak_strategy
FindIronCondor ==
    /\ pc = "start"
    /\ LET ps == SortDesc({x \in Range(contracts) : x.right = "PUT"})
           cl == SortAsc({x \in Range(contracts) : x.right = "CALL"})
       IN  /\ puts' = ps
           /\ calls' = cl
           /\ IF Len(ps) < 2 \/ Len(cl) < 2
              THEN /\ result' = ReturnNone(57)
                   /\ pc' = "done"
                   /\ UNCHANGED <<call_spread, put_spread, hist>>
              ELSE LET straddle_price == calculate_straddle_price(contracts, spx_price)
                       c0 == find_initial_spread(cl, spx_price, straddle_price, "CALL",
                                                 cfg.spread_width)
                       p0 == find_initial_spread(ps, spx_price, straddle_price, "PUT",
                                                 cfg.spread_width)
                   IN  IF IsNone(c0)
                       THEN /\ result' = [kind |-> "raise", what |-> "No valid call spread found"]
                            /\ pc' = "done"
                            /\ UNCHANGED <<call_spread, put_spread, hist>>
                       ELSE IF IsNone(p0)
                       THEN /\ result' = [kind |-> "raise", what |-> "No valid put spread found"]
                            /\ pc' = "done"
                            /\ call_spread' = c0
                            /\ UNCHANGED <<put_spread, hist>>
                       ELSE /\ call_spread' = c0
                            /\ put_spread' = p0
                            /\ pc' = "loop"
                            /\ hist' = [hist EXCEPT !.in_call = c0, !.in_put = p0]
                            /\ UNCHANGED result
    /\ tweak_attempts' = 0
    /\ UNCHANGED <<contracts, spx_price, cfg, probe, algo, now, market, tick, ledger,
                   schedule>>

---------------------------------------------------------------------------
(* find_iron_condor as one call, for the handlers that call it *)

\* IronCondorFinder.tweak_strategy(call_spread, put_spread, calls, puts) from the
\* iteration numbered attempts on: what the call returns
RECURSIVE tweak_strategy(_, _, _, _, _, _)
tweak_strategy(cs, ps, cl, pl, attempts, c) ==
    IF ~LoopCondition(attempts, c.max_tweak_attempts) THEN ReturnNone(192)
    ELSE IF MissingSpread(cs, ps) THEN ReturnNone(133)
    ELSE LET k  == FailingCheck(cs, ps, c)
             ms == MovesOfCheck(k, cs, ps)
         IN  IF k = 0
             THEN [kind |-> "ok", call_spread |-> cs, put_spread |-> ps, n |-> attempts + 1]
             ELSE tweak_strategy(AfterMoves("CALL", ms, cs, ps, cl, pl, c),
                                 AfterMoves("PUT", ms, cs, ps, cl, pl, c),
                                 cl, pl, attempts + 1, c)

\* IronCondorFinder.find_iron_condor(contracts, spx_price): what the call returns
\* or raises
find_iron_condor(chain, spx, c) ==
    LET ps == SortDesc({x \in Range(chain) : x.right = "PUT"})
        cl == SortAsc({x \in Range(chain) : x.right = "CALL"})
    IN  IF Len(ps) < 2 \/ Len(cl) < 2 THEN ReturnNone(57)
        ELSE LET straddle_price == calculate_straddle_price(chain, spx)
                 c0 == find_initial_spread(cl, spx, straddle_price, "CALL", c.spread_width)
                 p0 == find_initial_spread(ps, spx, straddle_price, "PUT", c.spread_width)
             IN  IF IsNone(c0)
                 THEN [kind |-> "raise", what |-> "No valid call spread found"]
                 ELSE IF IsNone(p0)
                 THEN [kind |-> "raise", what |-> "No valid put spread found"]
                 ELSE tweak_strategy(c0, p0, cl, ps, 0, c)

---------------------------------------------------------------------------
(* Inputs: option chains, prices and configurations the search is run on *)

RECURSIVE Halve(_, _)
Halve(top, i) == IF i = 0 THEN top ELSE Halve(top, i - 1) \div 2

\* the contract i steps of 5 points out of the money from strike 100: the
\* at-the-money ask is q.atm_ask; one step out the bid is q.bid and the delta
\* q.delta, and both halve with every further step; asks are a nickel above bids
Quote(right, i, q) ==
    LET bid == IF i = 0 THEN q.atm_ask - 5 ELSE Halve(q.bid, i - 1)
        d   == IF i = 0 THEN 500 ELSE Halve(q.delta, i - 1)
    IN  [right  |-> right,
         strike |-> IF right = "CALL" THEN 100 + 5 * i ELSE 100 - 5 * i,
         bid    |-> bid,
         ask    |-> bid + 5,
         delta  |-> IF right = "CALL" THEN d ELSE -d]

\* which strikes of the grid are listed
Listed(shape) ==
    CASE shape = "full"   -> 0 .. NumStrikes
      [] shape = "even"   -> {i \in 0 .. NumStrikes : i % 2 = 0}
      [] shape = "near"   -> 0 .. (NumStrikes - 2)
      [] shape = "single" -> {1}
      [] shape = "gapped" -> (0 .. NumStrikes) \ {4}

Shapes == {"full", "even", "near", "single"}

\* levels of one side of the chain: cents and thousandths
QuoteLevels ==
    {[atm_ask |-> 250, bid |-> 320, delta |-> 240],
     [atm_ask |-> 350, bid |-> 320, delta |-> 120],
     [atm_ask |-> 500, bid |-> 200, delta |-> 200],
     [atm_ask |-> 250, bid |-> 640, delta |-> 480],
     [atm_ask |-> 250, bid |-> 96,  delta |-> 120],
     [atm_ask |-> 250, bid |-> 116, delta |-> 120],
     [atm_ask |-> 250, bid |-> 0,   delta |-> 0]}

\* a chain snapshot as the harness lists it: by strike, calls before puts
Chain(cshape, cq, pshape, pq) ==
    SortAsc({Quote("CALL", i, cq) : i \in Listed(cshape)})
      \o SortAsc({Quote("PUT", i, pq) : i \in Listed(pshape)})

\* IronCondorFinder.__init__ as the strategies call it (baseline main.py,
\* spxw_1dte main.py) and a third, tighter parameter set
Thresholds ==
    {[spread_width |-> 20, min_credit |-> 105, max_credit |-> 145,
      max_call_delta |-> 80, max_put_delta |-> 100, max_total_delta |-> 180,
      credit_balance_ratio |-> [num |-> 6, den |-> 10],
      delta_ratio |-> [num |-> 6, den |-> 10]],
     [spread_width |-> 20, min_credit |-> 105, max_credit |-> 145,
      max_call_delta |-> 80, max_put_delta |-> 100, max_total_delta |-> 180,
      credit_balance_ratio |-> [num |-> 5, den |-> 10],
      delta_ratio |-> [num |-> 5, den |-> 10]],
     [spread_width |-> 10, min_credit |-> 40, max_credit |-> 120,
      max_call_delta |-> 60, max_put_delta |-> 60, max_total_delta |-> 100,
      credit_balance_ratio |-> [num |-> 6, den |-> 10],
      delta_ratio |-> [num |-> 6, den |-> 10]]}

WithAttempts(t, n) ==
    [spread_width         |-> t.spread_width,
     min_credit           |-> t.min_credit,
     max_credit           |-> t.max_credit,
     max_call_delta       |-> t.max_call_delta,
     max_put_delta        |-> t.max_put_delta,
     max_total_delta      |-> t.max_total_delta,
     credit_balance_ratio |-> t.credit_balance_ratio,
     delta_ratio          |-> t.delta_ratio,
     max_tweak_attempts   |-> n]

Configs == {WithAttempts(t, n) : t \in Thresholds, n \in 0 .. MaxTweakAttempts}

SpxPrices == {10000, 10250}

Init ==
    /\ \E cshape \in Shapes, pshape \in Shapes, cq \in QuoteLevels, pq \in QuoteLevels :
          contracts = Chain(cshape, cq, pshape, pq)
    /\ spx_price \in SpxPrices
    /\ cfg \in Configs
    /\ pc = "start"
    /\ calls = << >>
    /\ puts = << >>
    /\ call_spread = None
    /\ put_spread = None
    /\ tweak_attempts = 0
    /\ result = NoResult
    /\ hist = NoHist
    /\ probe = None
    /\ algo = None
    /\ now = None
    /\ market = None
    /\ tick = None
    /\ ledger = None
    /\ schedule = {}

Next == FindIronCondor \/ TweakIteration \/ TweakExhausted

Spec == Init /\ [][Next]_vars

---------------------------------------------------------------------------
(* The balance predicates of the other strategy files, and the predicates run  *)
(* on their own                                                               *)

\* what a call does: it returns a value or an exception leaves it
Returned(v) == [raised |-> FALSE, value |-> v]

Raised(e) == [raised |-> TRUE, error |-> e]

\* Python float division smaller / larger followed by >= ratio
DivideAtLeast(smaller, larger, ratio) ==
    IF larger = 0 THEN Raised("ZeroDivisionError")
    ELSE Returned(RatioAtLeast(smaller, larger, ratio))

\* util.is_credit_balanced(call_credit, put_credit, credit_balance_ratio)
util_is_credit_balanced(call_credit, put_credit, ratio) ==
    LET smaller == Min2(call_credit, put_credit)
        larger  == Max2(call_credit, put_credit)
    IN  DivideAtLeast(smaller, larger, ratio)

\* util.is_delta_balanced(call_delta, put_delta, delta_ratio)
util_is_delta_balanced(call_delta, put_delta, ratio) ==
    LET smaller == Min2(call_delta, put_delta)
        larger  == Max2(call_delta, put_delta)
    IN  DivideAtLeast(smaller, larger, ratio)

\* SPXW1DTEIronCondor_v0.is_credit_balanced(call_credit, put_credit)
v0_is_credit_balanced(call_credit, put_credit, ratio) ==
    LET smaller == Min2(call_credit, put_credit)
        larger  == Max2(call_credit, put_credit)
    IN  DivideAtLeast(smaller, larger, ratio)

\* SPXW1DTEIronCondor_v0.is_delta_balanced(call_delta, put_delta)
v0_is_delta_balanced(call_delta, put_delta, ratio) ==
    LET smaller == Min2(call_delta, put_delta)
        larger  == Max2(call_delta, put_delta)
    IN  DivideAtLeast(smaller, larger, ratio)

\* the two inputs of a balance predicate range over -2 .. MaxBalanceInput
MaxBalanceInput == 6

BalanceInputs == (-2) .. MaxBalanceInput

\* ratio thresholds: the two the strategies configure, 1, one above 1, one near 0
BalanceRatios ==
    {[num |-> 6, den |-> 10], [num |-> 5, den |-> 10], [num |-> 1, den |-> 1],
     [num |-> 15, den |-> 10], [num |-> 1, den |-> 100]}

BalanceCall(impl, fn, a, b, r, out) ==
    probe' = [impl |-> impl, fn |-> fn, call |-> a, put |-> b, ratio |-> r, out |-> out]

\* a call of a pure function: it returns, and touches nothing of the search
SearchIdle ==
    /\ pc' = "done"
    /\ UNCHANGED <<contracts, spx_price, cfg, calls, puts, call_spread, put_spread,
                   tweak_attempts, result, hist, algo, now, market, tick, ledger, schedule>>

FinderCreditBalanced ==
    /\ pc = "balance"
    /\ \E a \in BalanceInputs, b \in BalanceInputs, r \in BalanceRatios :
          BalanceCall("IronCondorFinder", "is_credit_balanced", a, b, r,
                      Returned(is_credit_balanced(a, b, r)))
    /\ SearchIdle

FinderDeltaBalanced ==
    /\ pc = "balance"
    /\ \E a \in BalanceInputs, b \in BalanceInputs, r \in BalanceRatios :
          BalanceCall("IronCondorFinder", "is_delta_balanced", a, b, r,
                      Returned(is_delta_balanced(a, b, r)))
    /\ SearchIdle

UtilCreditBalanced ==
    /\ pc = "balance"
    /\ \E a \in BalanceInputs, b \in BalanceInputs, r \in BalanceRatios :
          BalanceCall("util", "is_credit_balanced", a, b, r,
                      util_is_credit_balanced(a, b, r))
    /\ SearchIdle

UtilDeltaBalanced ==
    /\ pc = "balance"
    /\ \E a \in BalanceInputs, b \in BalanceInputs, r \in BalanceRatios :
          BalanceCall("util", "is_delta_balanced", a, b, r,
                      util_is_delta_balanced(a, b, r))
    /\ SearchIdle

V0CreditBalanced ==
    /\ pc = "balance"
    /\ \E a \in BalanceInputs, b \in BalanceInputs, r \in BalanceRatios :
          BalanceCall("v0", "is_credit_balanced", a, b, r,
                      v0_is_credit_balanced(a, b, r))
    /\ SearchIdle

V0DeltaBalanced ==
    /\ pc = "balance"
    /\ \E a \in BalanceInputs, b \in BalanceInputs, r \in BalanceRatios :
          BalanceCall("v0", "is_delta_balanced", a, b, r,
                      v0_is_delta_balanced(a, b, r))
    /\ SearchIdle

\* the values the search variables hold while a pure function is studied
IdleInit(label) ==
    /\ contracts = << >>
    /\ spx_price = 10000
    /\ cfg \in {c \in Configs : c.spread_width = 20 /\ c.max_tweak_attempts = 0
                                /\ c.delta_ratio.num = 6}
    /\ pc = label
    /\ calls = << >>
    /\ puts = << >>
    /\ call_spread = None
    /\ put_spread = None
    /\ tweak_attempts = 0
    /\ result = NoResult
    /\ hist = NoHist
    /\ probe = None
    /\ algo = None
    /\ now = None
    /\ market = None
    /\ tick = None
    /\ ledger = None
    /\ schedule = {}

BalanceInit == IdleInit("balance")

BalanceNext ==
    \/ FinderCreditBalanced \/ FinderDeltaBalanced
    \/ UtilCreditBalanced \/ UtilDeltaBalanced
    \/ V0CreditBalanced \/ V0DeltaBalanced

BalanceSpec == BalanceInit /\ [][BalanceNext]_vars

---------------------------------------------------------------------------
(* The spread builders run on their own *)

\* the tests of the loop body without the one on the delta of the short leg
TargetDeltaHitAnyDelta(cs, i, max_delta, spread_width, side) ==
    LET contract    == cs[i]
        long_strike == IF side = "call"
                       THEN contract.strike + spread_width
                       ELSE contract.strike - spread_width
        li          == FirstAtStrike(cs, long_strike)
    IN  /\ li # 0
        /\ ~(side = "call" /\ cs[li].strike <= contract.strike)
        /\ ~(side = "put" /\ cs[li].strike >= contract.strike)

\* the contracts of seq, in order, that pass every test of the loop body of
\* util.find_spread_with_target_delta and so reach its return statement
TargetDeltaHit(cs, i, max_delta, spread_width, side) ==
    LET contract    == cs[i]
        long_strike == IF side = "call"
                       THEN contract.strike + spread_width
                       ELSE contract.strike - spread_width
        li          == FirstAtStrike(cs, long_strike)
    IN  /\ ~(Abs(contract.delta) > max_delta)
        /\ li # 0
        /\ ~(side = "call" /\ cs[li].strike <= contract.strike)
        /\ ~(side = "put" /\ cs[li].strike >= contract.strike)

\* str.upper() on the two sides the callers pass
Upper(side) == IF side = "call" THEN "CALL" ELSE IF side = "put" THEN "PUT" ELSE side

\* util.find_spread_with_target_delta(contracts, max_delta, spread_width, side)
find_spread_with_target_delta(cs, max_delta, spread_width, side) ==
    IF \E i \in DOMAIN cs : TargetDeltaHit(cs, i, max_delta, spread_width, side)
    THEN LET i == CHOOSE k \in DOMAIN cs :
                     /\ TargetDeltaHit(cs, k, max_delta, spread_width, side)
                     /\ \A j \in DOMAIN cs :
                           TargetDeltaHit(cs, j, max_delta, spread_width, side) => k <= j
             long_strike == IF side = "call"
                            THEN cs[i].strike + spread_width
                            ELSE cs[i].strike - spread_width
         IN  Spread(cs[i], cs[FirstAtStrike(cs, long_strike)], Upper(side))
    ELSE None

\* candidate lists as find_iron_condor and roll_for_side build them: calls by
\* ascending strike, puts by descending strike
CandidateList(side, shape, q) ==
    IF side = "CALL"
    THEN SortAsc({Quote("CALL", i, q) : i \in Listed(shape)})
    ELSE SortDesc({Quote("PUT", i, q) : i \in Listed(shape)})

BuilderLevels ==
    {[atm_ask |-> 250, bid |-> 320, delta |-> 240],
     [atm_ask |-> 250, bid |-> 640, delta |-> 480]}

\* target short strikes: on and off the 5-point grid, inside and beyond the chain
BuilderTargets ==
    {t \in (100 - 5 * (NumStrikes + 1)) .. (100 + 5 * (NumStrikes + 1)) : t % 5 \in {0, 2}}

BuilderWidths == {5, 10, 20}

\* straddle prices handed to find_initial_spread range over 0 .. MaxStraddle
MaxStraddle == 8

\* max_delta of the target-delta builder: the 0.20 of roll_for_side, and tighter
BuilderMaxDeltas == {200, 60, 0}

\* build_spread is also handed the empty list it guards against
CallBuildSpread ==
    /\ pc = "builder"
    /\ \E side \in {"CALL", "PUT"}, shape \in Shapes \cup {"none"}, q \in BuilderLevels,
          t \in BuilderTargets, w \in BuilderWidths :
          LET cs == IF shape = "none" THEN << >> ELSE CandidateList(side, shape, q)
          IN  probe' = [fn |-> "build_spread", side |-> side, contracts |-> cs,
                        target |-> t, width |-> w,
                        out |-> build_spread(cs, t, side, w)]
    /\ SearchIdle

CallFindInitialSpread ==
    /\ pc = "builder"
    /\ \E side \in {"CALL", "PUT"}, shape \in Shapes, q \in BuilderLevels,
          spx \in SpxPrices, sp \in 0 .. MaxStraddle, w \in BuilderWidths :
          LET cs == CandidateList(side, shape, q)
          IN  probe' = [fn |-> "find_initial_spread", side |-> side, contracts |-> cs,
                        spx_price |-> spx, straddle_price |-> sp, width |-> w,
                        out |-> find_initial_spread(cs, spx, sp, side, w)]
    /\ SearchIdle

CallFindSpreadWithTargetDelta ==
    /\ pc = "builder"
    /\ \E side \in {"call", "put"}, shape \in Shapes \cup {"gapped"},
          q \in BuilderLevels, d \in BuilderMaxDeltas, w \in BuilderWidths :
          LET cs == CandidateList(Upper(side), shape, q)
          IN  probe' = [fn |-> "find_spread_with_target_delta", side |-> side,
                        contracts |-> cs, max_delta |-> d, width |-> w,
                        out |-> find_spread_with_target_delta(cs, d, w, side)]
    /\ SearchIdle

\* a move of the tweak loop on a spread the builder made at a listed strike
CallMoveSpread ==
    /\ pc = "builder"
    /\ \E dir \in {"up", "away"}, side \in {"CALL", "PUT"}, shape \in Shapes,
          q \in BuilderLevels, w \in BuilderWidths, spx \in SpxPrices :
       \E i \in Listed(shape) :
          LET cs     == CandidateList(side, shape, q)
              spread == build_spread(cs, Quote(side, i, q).strike, side, w)
          IN  /\ IsSpread(spread)
              /\ probe' = [fn |-> IF dir = "up" THEN "move_spread_up"
                                  ELSE "move_spread_away",
                           side |-> side, contracts |-> cs, spread |-> spread,
                           points |-> TweakPoints, width |-> w, spx_price |-> spx,
                           out |-> IF dir = "up"
                                   THEN move_spread_up(spread, cs, TweakPoints, w)
                                   ELSE move_spread_away(spread, cs, TweakPoints, w)]
    /\ SearchIdle

BuilderInit == IdleInit("builder")

BuilderNext ==
    \/ CallBuildSpread
    \/ CallFindInitialSpread
    \/ CallFindSpreadWithTargetDelta
    \/ CallMoveSpread

BuilderSpec == BuilderInit /\ [][BuilderNext]_vars

---------------------------------------------------------------------------
(* Properties of the condor search *)

\* min(a, b) / max(a, b) >= r, and false when the larger one is 0
RatioHolds(a, b, r) ==
    LET lo == IF a <= b THEN a ELSE b
        hi == IF a <= b THEN b ELSE a
    IN  /\ hi # 0
        /\ hi > 0 => lo * r.den >= r.num * hi
        /\ hi < 0 => lo * r.den <= r.num * hi

\* the seven constraints, numbered as the checks are
Constraint(k, cs, ps, c) ==
    CASE k = 1 -> c.min_credit <= cs.price + ps.price
      [] k = 2 -> cs.price + ps.price <= c.max_credit
      [] k = 3 -> cs.delta <= c.max_call_delta
      [] k = 4 -> ps.delta <= c.max_put_delta
      [] k = 5 -> cs.delta + ps.delta <= c.max_total_delta
      [] k = 6 -> RatioHolds(cs.price, ps.price, c.credit_balance_ratio)
      [] k = 7 -> RatioHolds(cs.delta, ps.delta, c.delta_ratio)

AllSeven(cs, ps, c) == \A k \in 1 .. 7 : Constraint(k, cs, ps, c)

Failing(cs, ps, c) == {k \in 1 .. 7 : ~Constraint(k, cs, ps, c)}

LowestFailing(cs, ps, c) ==
    IF Failing(cs, ps, c) = {} THEN 0
    ELSE CHOOSE k \in Failing(cs, ps, c) : \A j \in Failing(cs, ps, c) : k <= j

Sides == {"CALL", "PUT"}

Other(side) == IF side = "CALL" THEN "PUT" ELSE "CALL"

Pre(side) == IF side = "CALL" THEN hist.pre_call ELSE hist.pre_put

Now(side) == IF side = "CALL" THEN call_spread ELSE put_spread

Pool(side) == IF side = "CALL" THEN calls ELSE puts

\* the sides with the least / the greatest value of a field
Least(f(_)) == {s \in Sides : f(Pre(s)) <= f(Pre(Other(s)))}

Greatest(f(_)) == {s \in Sides : f(Pre(s)) >= f(Pre(Other(s)))}

PriceOf(sp) == sp.price

DeltaOf(sp) == sp.delta

\* the moves the design prescribes for a failing check k, as sets of <<side, direction>>;
\* where two sides tie, either may be the one that moves
PrescribedMoves(k) ==
    CASE k = 1 -> {{<<s, "up">>} : s \in Least(PriceOf)}
      [] k = 2 -> {{<<s, "away">>} : s \in Greatest(PriceOf)}
      [] k = 3 -> {{<<"CALL", "away">>}}
      [] k = 4 -> {{<<"PUT", "away">>}}
      [] k = 5 -> {{<<s, "away">>} : s \in Greatest(DeltaOf)}
      [] k = 6 -> {{<<s, "up">>} : s \in Least(PriceOf)}
      [] k = 7 -> {{<<s, "up">>, <<Other(s), "away">>} : s \in Least(DeltaOf)}
      [] OTHER -> {{}}

MoveSet == {hist.moves[i] : i \in DOMAIN hist.moves}

MovedSides == {m[1] : m \in MoveSet}

\* the target short strike of a move: 5 strike points toward or away from the money
TargetOf(side, dir, strike) ==
    IF (side = "CALL") = (dir = "up") THEN strike - 5 ELSE strike + 5

\* what the Spread Builder gives for the move of `side` recorded in hist
RebuiltBy(m) ==
    build_spread(Pool(m[1]), TargetOf(m[1], m[2], Pre(m[1]).short_leg.strike), m[1],
                 cfg.spread_width)

\* the last iteration left every side as its moves say: rebuilt, or untouched
PairFollowsMoves ==
    /\ \A m \in MoveSet : Now(m[1]) = RebuiltBy(m)
    /\ \A s \in Sides \ MovedSides : Now(s) = Pre(s)

Searched == IsSpread(hist.in_call) /\ IsSpread(hist.in_put)

\* C1: whenever the search returns a result, the returned pair satisfies all seven
\* constraints at once
SearchSoundness ==
    result.kind = "ok" => AllSeven(result.call_spread, result.put_spread, cfg)

\* a result returned after at least one move
SearchSoundnessWitness ==
    /\ result.kind = "ok"
    /\ result.n >= 2
    /\ result.call_spread # hist.in_call

\* C2: the search performs at most max_tweak_attempts iterations, a returned
\* iteration count is at most max_tweak_attempts, and with max_tweak_attempts = 0 it
\* returns no result at once without evaluating any check
IterationBound ==
    /\ tweak_attempts <= cfg.max_tweak_attempts
    /\ hist.evaluated <= tweak_attempts
    /\ result.kind = "ok" => result.n <= cfg.max_tweak_attempts
    /\ cfg.max_tweak_attempts = 0 =>
          /\ hist.evaluated = 0
          /\ hist.kind = "none"
          /\ (pc = "done" /\ Searched) => result = ReturnNone(192)

IterationBoundWitness ==
    /\ pc = "done"
    /\ Searched
    /\ cfg.max_tweak_attempts = 0
    /\ result = ReturnNone(192)
    /\ hist.evaluated = 0

\* C3: on an input pair that already satisfies all seven checks, with
\* max_tweak_attempts >= 1, the search ends in its first iteration and returns
\* exactly that pair with iteration count 1
IdempotentOnQualifyingPair ==
    (/\ Searched
     /\ AllSeven(hist.in_call, hist.in_put, cfg)
     /\ cfg.max_tweak_attempts >= 1
     /\ tweak_attempts >= 1)
    => /\ pc = "done"
       /\ result = [kind |-> "ok", call_spread |-> hist.in_call,
                    put_spread |-> hist.in_put, n |-> 1]

IdempotentWitness ==
    /\ pc = "done"
    /\ Searched
    /\ AllSeven(hist.in_call, hist.in_put, cfg)
    /\ result.kind = "ok"
    /\ result.n = 1

\* C4: in every iteration the check that decides is the lowest-numbered failing
\* one of the seven, and the moves applied are that check's moves and no others
CheckPriority ==
    hist.kind \in {"move", "pass"} =>
        LET k == LowestFailing(hist.pre_call, hist.pre_put, cfg)
        IN  /\ hist.check = k
            /\ MoveSet \in PrescribedMoves(k)
            /\ (k = 0) = (hist.kind = "pass")
            /\ PairFollowsMoves

\* an iteration in which several checks fail, a later one prescribing another move
CheckPriorityWitness ==
    /\ hist.kind = "move"
    /\ \E j \in Failing(hist.pre_call, hist.pre_put, cfg) :
          /\ j > hist.check
          /\ MoveSet \notin PrescribedMoves(j)

\* C5: when the combined credit is below min_credit, the side with the smaller
\* credit is rebuilt at a target short strike 5 points closer to the money and the
\* other side's spread is left as it was
MinCreditMove ==
    (hist.kind = "move" /\ hist.pre_call.price + hist.pre_put.price < cfg.min_credit) =>
        \E s \in Sides :
            /\ hist.moves = << <<s, "up">> >>
            /\ Pre(s).price <= Pre(Other(s)).price
            /\ Now(s) = build_spread(Pool(s),
                                     IF s = "CALL" THEN Pre(s).short_leg.strike - 5
                                     ELSE Pre(s).short_leg.strike + 5,
                                     s, cfg.spread_width)
            /\ Now(Other(s)) = Pre(Other(s))

\* the example of the design: min_credit 1.05, call credit 0.40, put credit 0.50
MinCreditMoveWitness ==
    /\ hist.kind = "move"
    /\ tweak_attempts = 1
    /\ cfg.min_credit = 105
    /\ hist.pre_call.price = 40
    /\ hist.pre_put.price = 50
    /\ hist.moves = << <<"CALL", "up">> >>
    /\ call_spread.short_leg.strike = hist.pre_call.short_leg.strike - 5
    /\ put_spread = hist.pre_put

\* C6: an iteration decided by check 7 rebuilds both spreads, the lower-delta side
\* toward the money and the higher-delta side away; an iteration decided by any of
\* checks 1..6 rebuilds exactly one side and leaves the other side's spread unchanged
OnlyDeltaBalanceMovesBoth ==
    hist.kind = "move" =>
        /\ hist.check = 7 =>
              /\ MovedSides = Sides
              /\ Len(hist.moves) = 2
              /\ \A s \in Sides :
                    Pre(s).delta < Pre(Other(s)).delta =>
                        MoveSet = {<<s, "up">>, <<Other(s), "away">>}
        /\ hist.check \in 1 .. 6 =>
              /\ Len(hist.moves) = 1
              /\ \A s \in Sides \ MovedSides : Now(s) = Pre(s)
        /\ \A m \in MoveSet : Now(m[1]) = RebuiltBy(m)

OnlyDeltaBalanceWitness ==
    /\ hist.kind = "move"
    /\ hist.check = 7
    /\ IsSpread(call_spread) /\ IsSpread(put_spread)
    /\ call_spread # hist.pre_call
    /\ put_spread # hist.pre_put

\* C10: a move whose build fails leaves that side's spread missing; no check is
\* ever evaluated on a missing spread, no returned pair contains one, and a search
\* that ends with a missing spread ends without a result
BuilderFailureAborts ==
    /\ hist.kind = "move" =>
          \A m \in MoveSet : IsNone(RebuiltBy(m)) => IsNone(Now(m[1]))
    /\ hist.kind \in {"move", "pass"} => IsSpread(hist.pre_call) /\ IsSpread(hist.pre_put)
    /\ result.kind = "ok" => IsSpread(result.call_spread) /\ IsSpread(result.put_spread)
    /\ (pc = "done" /\ Searched /\ (IsNone(call_spread) \/ IsNone(put_spread)))
          => result.kind = "none"

\* a move failed and the next iteration ended the search at the guard
BuilderFailureWitness ==
    /\ pc = "done"
    /\ hist.kind = "abort"
    /\ result = ReturnNone(133)
    /\ IsNone(put_spread) \/ IsNone(call_spread)

---------------------------------------------------------------------------
(* Properties of the spread builders (BuilderSpec) *)

BuilderCalled ==
    /\ pc = "done"
    /\ probe.fn \in {"build_spread", "find_initial_spread", "find_spread_with_target_delta"}

\* C7: every spread a builder returns has its long leg strictly farther from the
\* money than its short leg: above it for a call spread, below it for a put spread
LongLegFarther ==
    (BuilderCalled /\ IsSpread(probe.out)) =>
        /\ probe.out.side = "CALL" => probe.out.long_leg.strike > probe.out.short_leg.strike
        /\ probe.out.side = "PUT" => probe.out.long_leg.strike < probe.out.short_leg.strike

\* build_spread for a target strike that is not listed, where the exact long strike
\* is not listed either and the long leg is the farthest contract of the list
LongLegFartherWitness ==
    /\ BuilderCalled
    /\ probe.fn = "build_spread"
    /\ probe.side = "CALL"
    /\ IsSpread(probe.out)
    /\ probe.out.short_leg.strike # probe.target
    /\ probe.out.long_leg.strike # probe.out.short_leg.strike + probe.width
    /\ probe.out.long_leg.strike = probe.contracts[Len(probe.contracts)].strike

---------------------------------------------------------------------------
(* Properties of the balance predicates (BalanceSpec) *)

BalanceCalled ==
    /\ pc = "done"
    /\ probe.fn \in {"is_credit_balanced", "is_delta_balanced"}

LargerInput == IF probe.call >= probe.put THEN probe.call ELSE probe.put

\* C8: when the larger of the two inputs is 0, every implementation of the
\* credit-balance and delta-balance check returns unbalanced and raises nothing
ZeroDenominatorUnbalanced ==
    (BalanceCalled /\ LargerInput = 0) => probe.out = Returned(FALSE)

\* C9 as stated: equal inputs pass, whatever the input and the threshold > 0
EqualInputsAlwaysPass ==
    (BalanceCalled /\ probe.call = probe.put /\ probe.ratio.num > 0)
        => probe.out = Returned(TRUE)

\* C9: equal inputs other than 0 pass for every threshold in (0, 1]
EqualNonzeroInputsPass ==
    (/\ BalanceCalled
     /\ probe.call = probe.put
     /\ probe.call # 0
     /\ probe.ratio.num > 0
     /\ probe.ratio.num <= probe.ratio.den)
        => probe.out = Returned(TRUE)

\* equal credits at the threshold 1, where the comparison is an equality
EqualNonzeroInputsWitness ==
    /\ BalanceCalled
    /\ probe.impl = "IronCondorFinder"
    /\ probe.fn = "is_credit_balanced"
    /\ probe.call = probe.put
    /\ probe.call > 0
    /\ probe.ratio.num = probe.ratio.den
    /\ probe.out = Returned(TRUE)

---------------------------------------------------------------------------
(* Properties of find_iron_condor as the entry tick calls it (Spec) *)

\* C11: a search that finds no candidate ends as an ordinary absent result and
\* never as a fault: in particular, when the initial call spread or the initial put
\* spread cannot be built because the long leg at short.strike +/- spread_width is
\* not listed, find_iron_condor returns no-result and raises nothing
InitialSpreadFailureIsNoResult ==
    pc = "done" => result.kind \in {"none", "ok"}

---------------------------------------------------------------------------
(* Market data of the position lifecycle: qc/spxw_1dte/main.py,              *)
(* qc/spxw_1dte/PositionRoller.py                                            *)

\* the days of a run are 0 .. MaxDay
MaxDay == 1

\* roll_for_side looks ahead `timedelta(days=7)`
RollHorizonDays == 7

\* the slice quotes the expiries today .. today + MaxOffset
MaxOffset == RollHorizonDays + 1

\* an option contract of the chain: a quote with its expiry day
Listing(e, right, i, q) ==
    LET c == Quote(right, i, q)
    IN  [expiry |-> e, right |-> c.right, strike |-> c.strike,
         bid |-> c.bid, ask |-> c.ask, delta |-> c.delta]

\* contract.symbol
Symbol(c) == [expiry |-> c.expiry, right |-> c.right, strike |-> c.strike]

\* an expiry may list nothing at all
ListedOrNone(shape) == IF shape = "none" THEN {} ELSE Listed(shape)

\* the quotes of the expiry day e in the market m seen on the day today
BookOf(m, today, e) ==
    LET k == e - today
    IN  m.book[(IF k < 0 THEN 0 ELSE IF k > MaxOffset THEN MaxOffset ELSE k) + 1]

\* the contracts the slice lists for the expiry e: calls then puts, by strike
ExpiryContracts(m, today, e) ==
    LET b == BookOf(m, today, e)
    IN  SortAsc({Listing(e, "CALL", i, b.cq) : i \in ListedOrNone(b.cshape)})
          \o SortAsc({Listing(e, "PUT", i, b.pq) : i \in ListedOrNone(b.pshape)})

\* self.current_slice.option_chains.get(self.spxw): every listed contract, by expiry
RECURSIVE ChainFrom(_, _, _)
ChainFrom(m, today, k) ==
    IF k > MaxOffset THEN << >>
    ELSE ExpiryContracts(m, today, today + k) \o ChainFrom(m, today, k + 1)

OptionChain(m, today) == ChainFrom(m, today, 0)

\* self.securities[symbol]: the quote of a contract whether or not the slice lists
\* it; price is the last trade, taken at the bid
Security(m, today, symbol) ==
    LET b == BookOf(m, today, symbol.expiry)
        q == IF symbol.right = "CALL" THEN b.cq ELSE b.pq
        c == Quote(symbol.right, Abs(symbol.strike - 100) \div 5, q)
    IN  [strike |-> symbol.strike, price |-> c.bid,
         bid_price |-> c.bid, ask_price |-> c.ask]

---------------------------------------------------------------------------
(* The roll engine: PositionRoller.py, util.py *)

\* determine_tested_side naming the side whose short strike is farther from spot
determine_tested_side_farther(spx, short_call_strike, short_put_strike) ==
    LET call_distance == 100 * short_call_strike - spx
        put_distance  == spx - 100 * short_put_strike
    IN  IF call_distance < put_distance THEN "put" ELSE "call"

\* util.determine_tested_side(spx_price, short_call_strike, short_put_strike)[0]
determine_tested_side(spx, short_call_strike, short_put_strike) ==
    LET call_distance == 100 * short_call_strike - spx
        put_distance  == spx - 100 * short_put_strike
    IN  IF call_distance < put_distance THEN "call" ELSE "put"

\* Leg.create(symbol, quantity)
Leg(symbol, quantity) == [symbol |-> symbol, quantity |-> quantity]

\* sorted(set(...)) of the expiry days of the chain that roll_for_side keeps
RECURSIVE SortDays(_)
SortDays(S) ==
    IF S = {} THEN << >>
    ELSE LET d == CHOOSE x \in S : \A y \in S : x <= y
         IN  <<d>> \o SortDays(S \ {d})

\* available_expiries that keeps the current expiry of the trade as well
available_expiries_from_current(chain, current_expiry, today) ==
    SortDays({chain[i].expiry : i \in {j \in DOMAIN chain :
                 /\ current_expiry <= chain[j].expiry
                 /\ chain[j].expiry <= today + RollHorizonDays}})

available_expiries(chain, current_expiry, today) ==
    SortDays({chain[i].expiry : i \in {j \in DOMAIN chain :
                 /\ current_expiry < chain[j].expiry
                 /\ chain[j].expiry <= today + RollHorizonDays}})

\* the 0.20 of find_spread_with_target_delta(..., 0.20, ...) in roll_for_side
RollTargetDelta == 200

\* the cost of closing the four current legs: shorts at the ask, longs at the bid
close_cost(trade, m, today) ==
    (Security(m, today, trade.short_call).ask_price
        - Security(m, today, trade.long_call).bid_price)
    + (Security(m, today, trade.short_put).ask_price
        - Security(m, today, trade.long_put).bid_price)

\* one pass of the body of `for expiry_date in available_expiries`: the record
\* says how far the pass got ("few", "sides", "spreads", "valid") and what it built
EvaluateExpiry(chain, expiry_date, trade, side, m, today, c) ==
    LET expiry_contracts == SelectSeq(chain, LAMBDA x : x.expiry = expiry_date)
        cl == SortAsc({x \in Range(expiry_contracts) : x.right = "CALL"})
        pl == SortDesc({x \in Range(expiry_contracts) : x.right = "PUT"})
        seen == [expiry |-> expiry_date, contracts |-> Len(expiry_contracts),
                 calls |-> Len(cl), puts |-> Len(pl)]
    IN  IF Len(expiry_contracts) < 4
        THEN [seen |-> seen, stage |-> "few"]
        ELSE IF Len(cl) < 2 \/ Len(pl) < 2
        THEN [seen |-> seen, stage |-> "sides"]
        ELSE
          LET straddle == calculate_straddle_price(expiry_contracts, m.spx)
              tested   == IF side = "call"
                          THEN find_spread_with_target_delta(cl, RollTargetDelta,
                                                             c.spread_width, "call")
                          ELSE find_spread_with_target_delta(pl, RollTargetDelta,
                                                             c.spread_width, "put")
              untested == IF side = "call"
                          THEN find_initial_spread(pl, m.spx, straddle, "PUT", c.spread_width)
                          ELSE find_initial_spread(cl, m.spx, straddle, "CALL", c.spread_width)
          IN  IF IsNone(tested) \/ IsNone(untested)
              THEN [seen |-> seen, stage |-> "spreads"]
              ELSE [seen |-> seen, stage |-> "valid",
                    tested |-> tested, untested |-> untested,
                    new_credit |-> tested.price + untested.price,
                    roll_credit |-> (tested.price + untested.price)
                                      - close_cost(trade, m, today)]

\* best_spreads before the first valid expiry
NoBest == [stage |-> "none"]

\* BetterRoll with < where the code has >
BetterRollLower(roll_credit, best_roll_credit) == roll_credit < best_roll_credit

\* `if roll_credit > best_roll_credit`
BetterRoll(roll_credit, best_roll_credit) == roll_credit > best_roll_credit

\* the loop over available_expiries from its pass i on: best_spreads at its end;
\* best_roll_credit starts at -inf, so the first valid expiry is always taken
RECURSIVE BestSpreads(_, _, _)
BestSpreads(evals, i, best) ==
    IF i > Len(evals) THEN best
    ELSE IF evals[i].stage = "valid"
            /\ (best.stage = "none" \/ BetterRoll(evals[i].roll_credit, best.roll_credit))
         THEN BestSpreads(evals, i + 1, evals[i])
         ELSE BestSpreads(evals, i + 1, best)

\* trade["profit_target"] = credit * 0.6 and trade["max_loss"] = credit * -3.5,
\* both in tenths of a cent for a credit in cents
ProfitTargetOf(credit) == 6 * credit

MaxLossOf(credit) == -35 * credit

\* the 8-leg combo order of roll_for_side: close the four current legs, tested side
\* first, then open the four new ones
RollLegs(trade, side, best) ==
    LET cur_short(s) == IF s = "call" THEN trade.short_call ELSE trade.short_put
        cur_long(s)  == IF s = "call" THEN trade.long_call ELSE trade.long_put
        other        == IF side = "call" THEN "put" ELSE "call"
    IN  << Leg(cur_short(side), 1), Leg(cur_long(side), -1),
           Leg(cur_short(other), 1), Leg(cur_long(other), -1),
           Leg(Symbol(best.tested.short_leg), -1), Leg(Symbol(best.tested.long_leg), 1),
           Leg(Symbol(best.untested.short_leg), -1), Leg(Symbol(best.untested.long_leg), 1) >>

\* RolledTrade that keeps the targets computed at entry
RolledTradeStaleTargets(trade, side, best) ==
    LET call_new == IF side = "call" THEN best.tested ELSE best.untested
        put_new  == IF side = "call" THEN best.untested ELSE best.tested
        new_total_credit == best.tested.price + best.untested.price
    IN  [trade EXCEPT !.short_call = Symbol(call_new.short_leg),
                      !.long_call = Symbol(call_new.long_leg),
                      !.short_put = Symbol(put_new.short_leg),
                      !.long_put = Symbol(put_new.long_leg),
                      !.call_credit = call_new.price,
                      !.put_credit = put_new.price,
                      !.expiry = best.tested.short_leg.expiry,
                      !.entry_credit = new_total_credit,
                      !.cumulative_credit = trade.cumulative_credit + new_total_credit]

\* RolledTrade that replaces cumulative_credit by the new credit
RolledTradeResetCredit(trade, side, best) ==
    LET call_new == IF side = "call" THEN best.tested ELSE best.untested
        put_new  == IF side = "call" THEN best.untested ELSE best.tested
        new_total_credit == best.tested.price + best.untested.price
    IN  [trade EXCEPT !.short_call = Symbol(call_new.short_leg),
                      !.long_call = Symbol(call_new.long_leg),
                      !.short_put = Symbol(put_new.short_leg),
                      !.long_put = Symbol(put_new.long_leg),
                      !.call_credit = call_new.price,
                      !.put_credit = put_new.price,
                      !.expiry = best.tested.short_leg.expiry,
                      !.entry_credit = new_total_credit,
                      !.cumulative_credit = new_total_credit,
                      !.profit_target = ProfitTargetOf(new_total_credit),
                      !.max_loss = MaxLossOf(new_total_credit)]

\* the assignments to `trade` at the end of roll_for_side; round(x, 2) of a sum of
\* cents is exact
RolledTrade(trade, side, best) ==
    LET call_new == IF side = "call" THEN best.tested ELSE best.untested
        put_new  == IF side = "call" THEN best.untested ELSE best.tested
        new_total_credit == best.tested.price + best.untested.price
        cumulative == trade.cumulative_credit + new_total_credit
    IN  [trade EXCEPT !.short_call = Symbol(call_new.short_leg),
                      !.long_call = Symbol(call_new.long_leg),
                      !.short_put = Symbol(put_new.short_leg),
                      !.long_put = Symbol(put_new.long_leg),
                      !.call_credit = call_new.price,
                      !.put_credit = put_new.price,
                      !.expiry = best.tested.short_leg.expiry,
                      !.entry_credit = new_total_credit,
                      !.cumulative_credit = cumulative,
                      !.profit_target = ProfitTargetOf(cumulative),
                      !.max_loss = MaxLossOf(cumulative)]

\* RollNone that leaves a trade whose entry credit was already overwritten
RollNoneTouched(trade, side, line, evals) ==
    [out |-> None, line |-> line, side |-> side, pre |-> trade,
     post |-> [trade EXCEPT !.entry_credit = 0],
     order |-> << >>, evals |-> evals, best |-> NoBest]

\* a roll_for_side call that returned None at the given source line
RollNone(trade, side, line, evals) ==
    [out |-> None, line |-> line, side |-> side, pre |-> trade, post |-> trade,
     order |-> << >>, evals |-> evals, best |-> NoBest]

\* PositionRoller.roll_for_side(trade, side): out is what the call returns, post the
\* trade dict after the call, order the legs of the order it submitted, evals the
\* passes of its loop
roll_for_side(trade, side, m, today, c) ==
    LET chain    == OptionChain(m, today)
        expiries == available_expiries(chain, trade.expiry, today)
        Rolled(evals, best, rolled) ==
            [out |-> rolled, line |-> 133, side |-> side, pre |-> trade,
             post |-> rolled, order |-> RollLegs(trade, side, best),
             evals |-> evals, best |-> best]
        Selected(evals, best) ==
            IF best.stage = "none" THEN RollNone(trade, side, 90, evals)
            ELSE Rolled(evals, best, RolledTrade(trade, side, best))
        Looped(evals) == Selected(evals, BestSpreads(evals, 1, NoBest))
    IN  IF chain = << >> THEN RollNone(trade, side, 39, << >>)
        ELSE IF expiries = << >> THEN RollNone(trade, side, 47, << >>)
        ELSE Looped([i \in DOMAIN expiries |->
                        EvaluateExpiry(chain, expiries[i], trade, side, m, today, c)])

\* PositionRoller.attempt_roll_on_max_loss(trade)
roller_attempt_roll_on_max_loss(trade, m, today, c) ==
    LET short_call_strike == Security(m, today, trade.short_call).strike
        short_put_strike  == Security(m, today, trade.short_put).strike
        tested_side == determine_tested_side(m.spx, short_call_strike, short_put_strike)
    IN  roll_for_side(trade, tested_side, m, today, c)

---------------------------------------------------------------------------
(* The position manager: qc/spxw_1dte/main.py *)

\* the attributes initialize() sets: no trade, every flag false
FreshAlgo ==
    [trade |-> None, position_entered |-> FALSE,
     call_side_closed |-> FALSE, put_side_closed |-> FALSE,
     pending_call_side_close |-> FALSE, pending_put_side_close |-> FALSE]

\* a handler run in progress: the attributes, the orders submitted so far, the
\* branches taken, the roll_for_side calls made, the attributes and the number of
\* orders at each of these calls, the P&L it computed and whether an exception
\* left it
Run(a) ==
    [algo |-> a, orders |-> << >>, path |-> << >>, rolls |-> << >>, calls |-> << >>,
     pnl |-> << >>, fault |-> FALSE]

\* self.combo_market_order(legs, 1)
combo_market_order(st, legs) == [st EXCEPT !.orders = Append(@, legs)]

Took(st, step) == [st EXCEPT !.path = Append(@, step)]

\* util.calculate_call_side_pnl / calculate_put_side_pnl, cents
calculate_call_side_pnl(trade, m, today, call_side_closed) ==
    IF call_side_closed THEN trade.call_credit
    ELSE trade.call_credit - (Security(m, today, trade.short_call).price
                                - Security(m, today, trade.long_call).price)

calculate_put_side_pnl(trade, m, today, put_side_closed) ==
    IF put_side_closed THEN trade.put_credit
    ELSE trade.put_credit - (Security(m, today, trade.short_put).price
                               - Security(m, today, trade.long_put).price)

\* calculate_pnl that values a closed side at the current quotes as well
calculate_pnl_live(trade, m, today, call_side_closed, put_side_closed) ==
    calculate_call_side_pnl(trade, m, today, FALSE)
    + calculate_put_side_pnl(trade, m, today, FALSE)

\* util.calculate_pnl(trade, securities, call_side_closed, put_side_closed)
calculate_pnl(trade, m, today, call_side_closed, put_side_closed) ==
    (IF ~call_side_closed
     THEN calculate_call_side_pnl(trade, m, today, call_side_closed)
     ELSE trade.call_credit)
    + (IF ~put_side_closed
       THEN calculate_put_side_pnl(trade, m, today, put_side_closed)
       ELSE trade.put_credit)

\* is_0dte also true on the day before the expiry
is_0dte_or_1dte(a, t) == a.trade # None /\ a.trade.expiry - t.day \in {0, 1}

\* SPXW1DTEIronCondor.is_0dte()
is_0dte(a, t) == a.trade # None /\ a.trade.expiry = t.day

\* SPXW1DTEIronCondor.enter_position(call_spread, put_spread, spx_price)
enter_position(st, cs, ps, spx) ==
    LET total_credit == cs.price + ps.price
        legs == << Leg(Symbol(ps.long_leg), 1), Leg(Symbol(ps.short_leg), -1),
                   Leg(Symbol(cs.short_leg), -1), Leg(Symbol(cs.long_leg), 1) >>
        trade == [entry_credit |-> total_credit,
                  call_credit |-> cs.price,
                  put_credit |-> ps.price,
                  cumulative_credit |-> total_credit,
                  profit_target |-> ProfitTargetOf(total_credit),
                  max_loss |-> MaxLossOf(total_credit),
                  long_put |-> Symbol(ps.long_leg),
                  short_put |-> Symbol(ps.short_leg),
                  short_call |-> Symbol(cs.short_leg),
                  long_call |-> Symbol(cs.long_leg),
                  expiry |-> cs.short_leg.expiry,
                  entry_spx_price |-> spx]
    IN  [combo_market_order(st, legs) EXCEPT
            !.algo = [trade |-> trade, position_entered |-> TRUE,
                      call_side_closed |-> FALSE, put_side_closed |-> FALSE,
                      pending_call_side_close |-> FALSE,
                      pending_put_side_close |-> FALSE]]

\* exit_call_side that returns early only for a closed side, not for a pending one
exit_call_side_while_pending(st) ==
    IF st.algo.call_side_closed THEN st
    ELSE [combo_market_order(st, << Leg(st.algo.trade.short_call, 1),
                                    Leg(st.algo.trade.long_call, -1) >>)
            EXCEPT !.algo.pending_call_side_close = TRUE]

\* SPXW1DTEIronCondor.exit_call_side(reason)
exit_call_side(st) ==
    IF st.algo.call_side_closed \/ st.algo.pending_call_side_close THEN st
    ELSE [combo_market_order(st, << Leg(st.algo.trade.short_call, 1),
                                    Leg(st.algo.trade.long_call, -1) >>)
            EXCEPT !.algo.pending_call_side_close = TRUE]

\* SPXW1DTEIronCondor.exit_put_side(reason)
exit_put_side(st) ==
    IF st.algo.put_side_closed \/ st.algo.pending_put_side_close THEN st
    ELSE [combo_market_order(st, << Leg(st.algo.trade.short_put, 1),
                                    Leg(st.algo.trade.long_put, -1) >>)
            EXCEPT !.algo.pending_put_side_close = TRUE]

\* ExitLegs with the call side collected before the put side
ExitLegsCallsFirst(a) ==
    (IF ~a.call_side_closed
     THEN << Leg(a.trade.short_call, 1), Leg(a.trade.long_call, -1) >> ELSE << >>)
    \o (IF ~a.put_side_closed
        THEN << Leg(a.trade.long_put, -1), Leg(a.trade.short_put, 1) >> ELSE << >>)

\* the legs exit_position collects: the put side, then the call side
ExitLegs(a) ==
    (IF ~a.put_side_closed
     THEN << Leg(a.trade.long_put, -1), Leg(a.trade.short_put, 1) >> ELSE << >>)
    \o (IF ~a.call_side_closed
        THEN << Leg(a.trade.short_call, 1), Leg(a.trade.long_call, -1) >> ELSE << >>)

\* exit_position that clears the Trade and leaves position_entered set
exit_position_keep_entered(st) ==
    IF ~st.algo.position_entered THEN st
    ELSE LET legs == ExitLegs(st.algo)
             st1  == IF legs # << >> THEN combo_market_order(st, legs) ELSE st
         IN  [st1 EXCEPT !.algo = [FreshAlgo EXCEPT !.position_entered = TRUE]]

\* SPXW1DTEIronCondor.exit_position(reason)
exit_position(st) ==
    IF ~st.algo.position_entered THEN st
    ELSE LET legs == ExitLegs(st.algo)
             st1  == IF legs # << >> THEN combo_market_order(st, legs) ELSE st
         IN  [st1 EXCEPT !.algo = FreshAlgo]

\* a roll_for_side call made by the manager: the call is recorded, its order is
\* among the submitted ones and the trade dict is the one the call left behind
AfterRollCall(st, r) ==
    [st EXCEPT !.rolls = Append(@, r),
               !.calls = Append(@, [algo |-> st.algo, orders |-> Len(st.orders)]),
               !.orders = IF r.order # << >> THEN Append(@, r.order) ELSE @,
               !.algo.trade = r.post]

\* attempt_roll_on_max_loss that keeps the position when the roll fails
attempt_roll_on_max_loss_keep(st, m, t, c) ==
    LET Called(r) ==
            IF r.out # None
            THEN [AfterRollCall(st, r) EXCEPT !.algo.call_side_closed = FALSE,
                                              !.algo.put_side_closed = FALSE,
                                              !.algo.pending_call_side_close = FALSE,
                                              !.algo.pending_put_side_close = FALSE]
            ELSE Took(AfterRollCall(st, r), "roll_failed")
    IN  Called(roller_attempt_roll_on_max_loss(st.algo.trade, m, t.day, c))

\* SPXW1DTEIronCondor.attempt_roll_on_max_loss()
attempt_roll_on_max_loss(st, m, t, c) ==
    LET Called(r) ==
            IF r.out # None
            THEN [AfterRollCall(st, r) EXCEPT !.algo.call_side_closed = FALSE,
                                              !.algo.put_side_closed = FALSE,
                                              !.algo.pending_call_side_close = FALSE,
                                              !.algo.pending_put_side_close = FALSE]
            ELSE exit_position(Took(AfterRollCall(st, r), "roll_failed"))
    IN  Called(roller_attempt_roll_on_max_loss(st.algo.trade, m, t.day, c))

\* the thresholds of the expiration-day rules: buy back a side at 0.20 or less,
\* roll a side whose short delta is above 0.30
CheapBuyback == 20

DefensiveDelta == 300

\* abs(contract.greeks.delta) of the chain contract with the given symbol, 0 when
\* the chain does not list it
ChainDelta(chain, symbol) ==
    IF \E i \in DOMAIN chain : Symbol(chain[i]) = symbol
    THEN Abs(chain[CHOOSE i \in DOMAIN chain :
                      /\ Symbol(chain[i]) = symbol
                      /\ \A j \in DOMAIN chain : Symbol(chain[j]) = symbol => i <= j].delta)
    ELSE 0

\* DefensiveRoll that rolls without closing the other side first
DefensiveRollNaked(st, side, m, t, c) ==
    LET Called(st1, r) ==
            IF r.out # None
            THEN [AfterRollCall(st1, r) EXCEPT !.algo.pending_call_side_close = FALSE,
                                               !.algo.pending_put_side_close = FALSE]
            ELSE AfterRollCall(st1, r)
    IN  Called(st, roll_for_side(st.algo.trade, side, m, t.day, c))

\* one of the two `rolling ... side` blocks of monitor_positions: close the other
\* side unless it is closed, roll, and on success take the rolled trade and drop
\* the pending flags
DefensiveRoll(st, side, m, t, c) ==
    LET Called(st1, r) ==
            IF r.out # None
            THEN [AfterRollCall(st1, r) EXCEPT !.algo.pending_call_side_close = FALSE,
                                               !.algo.pending_put_side_close = FALSE]
            ELSE AfterRollCall(st1, r)
        closed ==
            IF side = "call"
            THEN (IF ~st.algo.put_side_closed THEN exit_put_side(st) ELSE st)
            ELSE (IF ~st.algo.call_side_closed THEN exit_call_side(st) ELSE st)
    IN  Called(closed, roll_for_side(closed.algo.trade, side, m, t.day, c))

\* `if call_buyback_cost <= 0.20 and not self.call_side_closed`
CheapCallRule(st, call_buyback_cost) ==
    IF call_buyback_cost <= CheapBuyback /\ ~st.algo.call_side_closed
    THEN exit_call_side(Took(st, "cheap_call")) ELSE st

\* `if put_buyback_cost <= 0.20 and not self.put_side_closed`
CheapPutRule(st, put_buyback_cost) ==
    IF put_buyback_cost <= CheapBuyback /\ ~st.algo.put_side_closed
    THEN exit_put_side(Took(st, "cheap_put")) ELSE st

\* `if short_call_delta > 0.30 and not self.call_side_closed`
CallDeltaRule(st, short_call_delta, m, t, c) ==
    IF short_call_delta > DefensiveDelta /\ ~st.algo.call_side_closed
    THEN DefensiveRoll(Took(st, "delta_call"), "call", m, t, c) ELSE st

\* `if short_put_delta > 0.30 and not self.put_side_closed`
PutDeltaRule(st, short_put_delta, m, t, c) ==
    IF short_put_delta > DefensiveDelta /\ ~st.algo.put_side_closed
    THEN DefensiveRoll(Took(st, "delta_put"), "put", m, t, c) ELSE st

\* the `if self.is_0dte():` block of monitor_positions; the legs of the trade are
\* subscribed securities, and the deltas and buyback costs are those of the trade
\* the block started with
ExpirationDayRules(st, m, t, c) ==
    LET chain == OptionChain(m, t.day)
        trade == st.algo.trade
        short_call_delta  == ChainDelta(chain, trade.short_call)
        short_put_delta   == ChainDelta(chain, trade.short_put)
        call_buyback_cost == Security(m, t.day, trade.short_call).bid_price
                               - Security(m, t.day, trade.long_call).ask_price
        put_buyback_cost  == Security(m, t.day, trade.short_put).bid_price
                               - Security(m, t.day, trade.long_put).ask_price
    IN  IF chain = << >> THEN Took(st, "no_chain")
        ELSE Took(PutDeltaRule(
                    CallDeltaRule(
                      CheapPutRule(CheapCallRule(st, call_buyback_cost),
                                   put_buyback_cost),
                      short_call_delta, m, t, c),
                    short_put_delta, m, t, c),
                  "rules")

\* monitor_positions with the expiration-day rules tried before the P&L limits
monitor_positions_rules_first(a, m, t, c) ==
    IF ~a.position_entered \/ a.trade = None THEN Took(Run(a), "idle")
    ELSE IF is_0dte(a, t) /\ t.hour < 9 THEN Took(Run(a), "early")
    ELSE
      LET current_pnl == calculate_pnl(a.trade, m, t.day,
                                       a.call_side_closed, a.put_side_closed)
          st == [Run(a) EXCEPT !.pnl = <<current_pnl>>]
      IN  IF is_0dte(a, t)
          THEN ExpirationDayRules(st, m, t, c)
          ELSE IF 10 * current_pnl >= a.trade.profit_target
          THEN exit_position(Took(st, "profit_target"))
          ELSE IF 10 * current_pnl <= a.trade.max_loss
          THEN attempt_roll_on_max_loss(Took(st, "max_loss"), m, t, c)
          ELSE Took(st, "hold")

\* SPXW1DTEIronCondor.monitor_positions() after warm-up
monitor_positions(a, m, t, c) ==
    IF ~a.position_entered \/ a.trade = None THEN Took(Run(a), "idle")
    ELSE IF is_0dte(a, t) /\ t.hour < 9 THEN Took(Run(a), "early")
    ELSE
      LET current_pnl == calculate_pnl(a.trade, m, t.day,
                                       a.call_side_closed, a.put_side_closed)
          st == [Run(a) EXCEPT !.pnl = <<current_pnl>>]
      IN  IF 10 * current_pnl >= a.trade.profit_target
          THEN exit_position(Took(st, "profit_target"))
          ELSE IF 10 * current_pnl <= a.trade.max_loss
          THEN attempt_roll_on_max_loss(Took(st, "max_loss"), m, t, c)
          ELSE IF is_0dte(a, t)
          THEN ExpirationDayRules(st, m, t, c)
          ELSE Took(st, "hold")

\* on_order_event that does not look at the pending flags
on_order_event_any_fill(a, status, symbol) ==
    IF status # "Filled" \/ a.trade = None THEN a
    ELSE
      LET call_closed == a.call_side_closed
                           \/ symbol \in {a.trade.short_call, a.trade.long_call}
          put_closed  == a.put_side_closed
                           \/ symbol \in {a.trade.short_put, a.trade.long_put}
      IN  [a EXCEPT !.call_side_closed = call_closed,
                    !.put_side_closed = put_closed,
                    !.pending_call_side_close = IF call_closed THEN FALSE ELSE @,
                    !.pending_put_side_close = IF put_closed THEN FALSE ELSE @]

\* SPXW1DTEIronCondor.on_order_event(order_event)
on_order_event(a, status, symbol) ==
    IF status # "Filled" \/ a.trade = None THEN a
    ELSE
      LET call_hit == a.pending_call_side_close
                        /\ symbol \in {a.trade.short_call, a.trade.long_call}
          put_hit  == a.pending_put_side_close
                        /\ symbol \in {a.trade.short_put, a.trade.long_put}
          call_closed == a.call_side_closed \/ call_hit
          put_closed  == a.put_side_closed \/ put_hit
      IN  [a EXCEPT !.call_side_closed = call_closed,
                    !.put_side_closed = put_closed,
                    !.pending_call_side_close = IF call_closed THEN FALSE ELSE @,
                    !.pending_put_side_close = IF put_closed THEN FALSE ELSE @]

\* self.max_search_attempts
MaxSearchAttempts == 5

\* check_entry that does not ask for the VIX term structure
check_entry_any_regime(a, m, t, c, contango) ==
    LET st == Run(a)
        chain == OptionChain(m, t.day)
        tomorrow == SelectSeq(chain, LAMBDA x : x.expiry = t.day + 1)
    IN  IF a.position_entered THEN Took(st, "entered")
        ELSE IF 0 >= MaxSearchAttempts THEN Took(st, "attempts")
        ELSE IF chain = << >> THEN Took(st, "no_chain")
        ELSE IF tomorrow = << >> THEN Took(st, "no_contracts")
        ELSE LET found == find_iron_condor(tomorrow, m.spx, c)
             IN  IF found.kind = "raise"
                 THEN [Took(st, found.what) EXCEPT !.fault = TRUE]
                 ELSE IF found.kind = "ok"
                 THEN enter_position(Took(st, "enter"), found.call_spread,
                                     found.put_spread, m.spx)
                 ELSE Took(st, "no_trade")

\* check_entry() after warm-up with search_and_enter_iron_condor(attempt=0); fault
\* says that an exception left the handler
check_entry(a, m, t, c, contango) ==
    LET st == Run(a)
        chain == OptionChain(m, t.day)
        tomorrow == SelectSeq(chain, LAMBDA x : x.expiry = t.day + 1)
    IN  IF a.position_entered THEN Took(st, "entered")
        ELSE IF ~contango THEN Took(st, "no_contango")
        ELSE IF 0 >= MaxSearchAttempts THEN Took(st, "attempts")
        ELSE IF chain = << >> THEN Took(st, "no_chain")
        ELSE IF tomorrow = << >> THEN Took(st, "no_contracts")
        ELSE LET found == find_iron_condor(tomorrow, m.spx, c)
             IN  IF found.kind = "raise"
                 THEN [Took(st, found.what) EXCEPT !.fault = TRUE]
                 ELSE IF found.kind = "ok"
                 THEN enter_position(Took(st, "enter"), found.call_spread,
                                     found.put_spread, m.spx)
                 ELSE Took(st, "no_trade")

---------------------------------------------------------------------------
(* The lifecycle as a state machine: the engine moves the clock and the market *)
(* and calls the scheduled handlers and the order-event handler               *)

\* the hours of a day at which the engine is observed: before 9, mid-session and
\* the 15:55 entry window
Hours == <<8, 10, 15>>

EntryHour == 15

\* quote levels of the lifecycle markets: two entry levels, a collapsed and a
\* stressed market, and a level with a large short delta
Level116 == [atm_ask |-> 250, bid |-> 116, delta |-> 120]

Level320 == [atm_ask |-> 250, bid |-> 320, delta |-> 240]

LevelCalm == [atm_ask |-> 250, bid |-> 0, delta |-> 0]

LevelStress == [atm_ask |-> 5200, bid |-> 2560, delta |-> 800]

LevelHot == [atm_ask |-> 250, bid |-> 116, delta |-> 900]

\* what the slice lists and quotes for one expiry
Quoted(cshape, pshape, cq, pq) ==
    [cshape |-> cshape, pshape |-> pshape, cq |-> cq, pq |-> pq]

Unlisted == Quoted("none", "none", LevelCalm, LevelCalm)

\* the expiries today and tomorrow, which hold the legs of the trade and the entry
\* candidates: markets in which a condor is found, a collapsed market, one side
\* cheap, one short delta large, a chain without the far call strikes, no listing
QuietListings ==
    {Quoted("full", "full", Level116, Level320),
     Quoted("full", "full", Level320, Level116),
     Quoted("full", "full", LevelCalm, LevelCalm),
     Quoted("full", "full", LevelCalm, Level320),
     Quoted("full", "full", Level116, LevelCalm),
     Quoted("near", "full", Level320, Level320),
     Unlisted}

\* the markets in which the manager tries to roll: the loss limit is hit, or one
\* short delta is large
RollingListings ==
    {Quoted("full", "full", LevelStress, LevelStress),
     Quoted("full", "full", LevelHot, Level320),
     Quoted("full", "full", Level320, LevelHot)}

\* the expiries two and three days out, as <<mid, far>>: two roll candidates with
\* the richer one first, then with the richer one last, then expiries that list
\* too few contracts or too few puts, then one without the far strikes, then a
\* stressed expiry, which hits the loss limit of a trade rolled into it
LaterListings ==
    {<<Quoted("full", "full", Level320, Level320), Quoted("full", "full", Level116, Level116)>>,
     <<Quoted("full", "full", Level116, Level116), Quoted("full", "full", Level320, Level320)>>,
     <<Quoted("single", "single", Level320, Level320), Quoted("full", "single", Level320, Level320)>>,
     <<Quoted("near", "near", Level320, Level320), Unlisted>>,
     <<Quoted("full", "full", LevelStress, LevelStress), Quoted("full", "full", Level320, Level320)>>}

\* slices without an option chain while the legs of the trade are still quoted
Chainless ==
    {Quoted("none", "none", LevelCalm, LevelCalm),
     Quoted("none", "none", Level116, Level320),
     Quoted("none", "none", LevelStress, LevelStress)}

UsualLater ==
    <<Quoted("full", "full", Level320, Level320), Quoted("full", "full", Level116, Level116)>>

\* a listing that yields a roll candidate whatever the side
Liquid == Quoted("full", "full", Level320, Level320)

\* the quotes by offset from today, 0 .. MaxOffset: today, tomorrow, two days
\* out, three days out, nothing for the rest of the week, and one listing a day
\* beyond the roll horizon
Book(today, tomorrow, mid, far, beyond) ==
    [k \in 1 .. (MaxOffset + 1) |->
        IF k = 1 THEN today
        ELSE IF k = 2 THEN tomorrow
        ELSE IF k = 3 THEN mid
        ELSE IF k = 4 THEN far
        ELSE IF k = MaxOffset + 1 THEN beyond
        ELSE Unlisted]

Market(near, later) ==
    [spx |-> 10000, book |-> Book(near, near, later[1], later[2], Liquid)]

\* the expiring contracts are the last ones listed within the roll horizon
LastListed(near) ==
    [spx |-> 10000,
     book |-> Book(near, Quoted("none", "none", near.cq, near.pq), Unlisted, Unlisted,
                   Liquid)]

\* no option chain in the slice
NoChain(near) ==
    [spx |-> 10000, book |-> Book(near, near, Unlisted, Unlisted, Unlisted)]

Markets ==
    {Market(near, UsualLater) : near \in QuietListings}
    \cup {Market(near, later) : near \in RollingListings, later \in LaterListings}
    \cup {LastListed(Quoted("full", "full", LevelStress, LevelStress))}
    \cup {NoChain(near) : near \in Chainless}

\* IronCondorFinder(...) of SPXW1DTEIronCondor.initialize, with max_tweak_attempts
\* cut down to the bound of the model
ManagerFinder ==
    WithAttempts(CHOOSE t \in Thresholds :
                    t.spread_width = 20 /\ t.credit_balance_ratio.num = 5,
                 MaxTweakAttempts)

NoEvent == [status |-> "none", symbol |-> None]

\* what self.vix_contango.is_in_contango() answered in a check_entry run
Regime(contango) ==
    [status |-> IF contango THEN "contango" ELSE "backwardation", symbol |-> None]

\* what tick holds after a handler ran as the run st from the attributes pre
Ticked(handler, pre, st, event) ==
    [handler |-> handler, pre |-> pre, orders |-> st.orders, path |-> st.path,
     rolls |-> st.rolls, calls |-> st.calls, pnl |-> st.pnl, fault |-> st.fault,
     event |-> event]

NoTick == Ticked("none", FreshAlgo, Run(FreshAlgo), NoEvent)

\* the variables of the condor search keep their idle values
SearchUnchanged ==
    UNCHANGED <<contracts, spx_price, cfg, calls, puts, call_spread, put_spread,
                tweak_attempts, result, hist, probe, schedule>>

\* no credit received, no contract held: net is the set of the contracts whose
\* submitted quantities do not sum to zero, each with that sum
NoLedger == [entry |-> 0, rolls |-> << >>, net |-> {}]

\* the signed quantity submitted so far for a contract
NetQuantity(net, symbol) ==
    IF \E e \in net : e.symbol = symbol
    THEN (CHOOSE e \in net : e.symbol = symbol).quantity
    ELSE 0

\* the net quantities after one more leg of a combo_market_order
WithLeg(net, leg) ==
    {e \in net : e.symbol # leg.symbol}
      \cup (IF NetQuantity(net, leg.symbol) + leg.quantity = 0 THEN {}
            ELSE {[symbol |-> leg.symbol,
                   quantity |-> NetQuantity(net, leg.symbol) + leg.quantity]})

\* the net quantities after the legs n, n + 1, ... of one order
RECURSIVE WithOrder(_, _, _)
WithOrder(net, order, n) ==
    IF n > Len(order) THEN net ELSE WithOrder(WithLeg(net, order[n]), order, n + 1)

\* the net quantities after the orders k, k + 1, ... of a handler run
RECURSIVE Submitted(_, _, _)
Submitted(net, orders, k) ==
    IF k > Len(orders) THEN net
    ELSE Submitted(WithOrder(net, orders[k], 1), orders, k + 1)

\* the ledger after a handler run: a new one at entry, none once the trade is gone,
\* one more credit for every successful roll_for_side call of the run; the net
\* quantities count every order of the run and outlive the trade
RECURSIVE RollCredits(_, _)
RollCredits(rolls, i) ==
    IF i > Len(rolls) THEN << >>
    ELSE (IF rolls[i].out # None THEN <<rolls[i].best.new_credit>> ELSE << >>)
           \o RollCredits(rolls, i + 1)

Booked(l, pre, st) ==
    LET Credited(net) ==
            IF st.algo.trade = None THEN [NoLedger EXCEPT !.net = net]
            ELSE IF pre.trade = None
            THEN [entry |-> st.algo.trade.entry_credit, rolls |-> << >>, net |-> net]
            ELSE [l EXCEPT !.rolls = @ \o RollCredits(st.rolls, 1), !.net = net]
    IN  Credited(Submitted(l.net, st.orders, 1))

\* the engine: the clock moves to the next observed hour and a new slice arrives;
\* each scheduled handler is called at most once at a given time
MarketMoves ==
    /\ pc = "live"
    /\ \E h \in DOMAIN Hours :
          /\ Hours[h] = now.hour
          /\ IF h < Len(Hours)
             THEN now' = [day |-> now.day, hour |-> Hours[h + 1], ran |-> {}]
             ELSE /\ now.day < MaxDay
                  /\ now' = [day |-> now.day + 1, hour |-> Hours[1], ran |-> {}]
    /\ market' \in Markets
    /\ tick' = NoTick
    /\ UNCHANGED <<algo, pc, ledger>>
    /\ SearchUnchanged

\* the scheduled check_entry at 15:55
CheckEntry ==
    /\ pc = "live"
    /\ now.hour = EntryHour
    /\ "check_entry" \notin now.ran
    /\ now' = [now EXCEPT !.ran = @ \cup {"check_entry"}]
    /\ \E contango \in BOOLEAN :
          \E st \in {check_entry(algo, market, now, cfg, contango)} :
              /\ algo' = st.algo
              /\ tick' = Ticked("check_entry", algo, st, Regime(contango))
              /\ ledger' = Booked(ledger, algo, st)
              /\ pc' = IF st.fault THEN "halted" ELSE "live"
    /\ UNCHANGED market
    /\ SearchUnchanged

\* the scheduled monitor_positions, every five minutes
MonitorPositions ==
    /\ pc = "live"
    /\ "monitor_positions" \notin now.ran
    /\ now' = [now EXCEPT !.ran = @ \cup {"monitor_positions"}]
    /\ \E st \in {monitor_positions(algo, market, now, cfg)} :
           /\ algo' = st.algo
           /\ tick' = Ticked("monitor_positions", algo, st, NoEvent)
           /\ ledger' = Booked(ledger, algo, st)
    /\ UNCHANGED <<market, pc>>
    /\ SearchUnchanged

OrderStatuses == {"Submitted", "Filled", "Canceled"}

\* a symbol that is no leg of any trade
OtherSymbol == [expiry |-> 0, right |-> "CALL", strike |-> 0]

\* the symbols an order event may name: the legs of the trade and any other
EventSymbols(a) ==
    IF a.trade = None THEN {OtherSymbol}
    ELSE {a.trade.short_call, a.trade.long_call, a.trade.short_put, a.trade.long_put,
          OtherSymbol}

\* the engine reports an order event
OnOrderEvent ==
    /\ pc = "live"
    /\ \E status \in OrderStatuses, symbol \in EventSymbols(algo) :
          /\ algo' = on_order_event(algo, status, symbol)
          /\ tick' = Ticked("on_order_event", algo, Run(algo'),
                            [status |-> status, symbol |-> symbol])
    /\ UNCHANGED <<now, market, pc, ledger>>
    /\ SearchUnchanged

LifecycleInit ==
    /\ contracts = << >>
    /\ spx_price = 10000
    /\ cfg = ManagerFinder
    /\ pc = "live"
    /\ calls = << >>
    /\ puts = << >>
    /\ call_spread = None
    /\ put_spread = None
    /\ tweak_attempts = 0
    /\ result = NoResult
    /\ hist = NoHist
    /\ probe = None
    /\ algo = FreshAlgo
    /\ now = [day |-> 0, hour |-> Hours[1], ran |-> {}]
    /\ market \in Markets
    /\ tick = NoTick
    /\ ledger = NoLedger
    /\ schedule = {}

LifecycleNext == MarketMoves \/ CheckEntry \/ MonitorPositions \/ OnOrderEvent

LifecycleSpec == LifecycleInit /\ [][LifecycleNext]_vars

---------------------------------------------------------------------------
(* The lifecycle over a longer horizon, on fewer markets (LongRunSpec) *)

\* the last day of the long horizon: a trade entered on day 0 and rolled twice
\* on day 1 can reach the expiry day of its second roll
LongRunDays == 4

\* an entry market, a quiet one, one with a large short call delta, one at the
\* loss limit with later expiries to roll to, one in which both sides of the
\* position are cheap to buy back, and one with large deltas on both sides
LongRunMarkets ==
    {Market(Quoted("full", "full", Level116, Level320), UsualLater),
     Market(Quoted("near", "full", Level320, Level320), UsualLater),
     Market(Quoted("full", "full", LevelHot, Level320), UsualLater),
     Market(Quoted("full", "full", LevelHot, Level320),
            <<Quoted("full", "full", LevelStress, LevelStress),
              Quoted("full", "full", Level320, Level320)>>),
     Market(Unlisted, UsualLater),
     Market(Quoted("full", "full", LevelHot, LevelHot), UsualLater)}

\* the engine of the long horizon: the clock of MarketMoves up to LongRunDays
LongRunMoves ==
    /\ pc = "live"
    /\ \E h \in DOMAIN Hours :
          /\ Hours[h] = now.hour
          /\ IF h < Len(Hours)
             THEN now' = [day |-> now.day, hour |-> Hours[h + 1], ran |-> {}]
             ELSE /\ now.day < LongRunDays
                  /\ now' = [day |-> now.day + 1, hour |-> Hours[1], ran |-> {}]
    /\ market' \in LongRunMarkets
    /\ tick' = NoTick
    /\ UNCHANGED <<algo, pc, ledger>>
    /\ SearchUnchanged

LongRunInit ==
    /\ contracts = << >>
    /\ spx_price = 10000
    /\ cfg = ManagerFinder
    /\ pc = "live"
    /\ calls = << >>
    /\ puts = << >>
    /\ call_spread = None
    /\ put_spread = None
    /\ tweak_attempts = 0
    /\ result = NoResult
    /\ hist = NoHist
    /\ probe = None
    /\ algo = FreshAlgo
    /\ now = [day |-> 0, hour |-> Hours[1], ran |-> {}]
    /\ market \in LongRunMarkets
    /\ tick = NoTick
    /\ ledger = NoLedger
    /\ schedule = {}

LongRunNext == LongRunMoves \/ CheckEntry \/ MonitorPositions \/ OnOrderEvent

LongRunSpec == LongRunInit /\ [][LongRunNext]_vars

---------------------------------------------------------------------------
(* The functions of util.py, called on their own (UtilSpec) *)

\* spreads of tomorrow's expiry, one and two strikes out of the money
UtilSpreads(right) ==
    {Spread(Listing(1, right, i, q), Listing(1, right, i + 4, q), right) :
        i \in {1, 2}, q \in {Level116, Level320}}

\* the trades enter_position makes of them
UtilTrades ==
    {enter_position(Run(FreshAlgo), cs, ps, 10000).algo.trade :
        cs \in UtilSpreads("CALL"), ps \in UtilSpreads("PUT")}

CallCalculatePnl ==
    /\ pc = "util"
    /\ \E trade \in UtilTrades, m \in Markets, cc \in BOOLEAN, pp \in BOOLEAN :
          probe' = [fn |-> "calculate_pnl", trade |-> trade, market |-> m,
                    call_side_closed |-> cc, put_side_closed |-> pp,
                    out |-> calculate_pnl(trade, m, 0, cc, pp)]
    /\ SearchIdle

CallCalculateCallSidePnl ==
    /\ pc = "util"
    /\ \E trade \in UtilTrades, m \in Markets, cc \in BOOLEAN :
          probe' = [fn |-> "calculate_call_side_pnl", trade |-> trade, market |-> m,
                    call_side_closed |-> cc, put_side_closed |-> FALSE,
                    out |-> calculate_call_side_pnl(trade, m, 0, cc)]
    /\ SearchIdle

CallCalculatePutSidePnl ==
    /\ pc = "util"
    /\ \E trade \in UtilTrades, m \in Markets, pp \in BOOLEAN :
          probe' = [fn |-> "calculate_put_side_pnl", trade |-> trade, market |-> m,
                    call_side_closed |-> FALSE, put_side_closed |-> pp,
                    out |-> calculate_put_side_pnl(trade, m, 0, pp)]
    /\ SearchIdle

UtilInit == IdleInit("util")

\* spot prices in cents and short strikes in points: spot between the short
\* strikes, half-way between them, on a short strike and beyond either one
UtilSpots == {9000, 9750, 10000, 10250, 10500, 11500}

UtilShortCalls == {100, 105, 110}

UtilShortPuts == {90, 95, 100}

CallDetermineTestedSide ==
    /\ pc = "util"
    /\ \E spx \in UtilSpots, short_call_strike \in UtilShortCalls,
          short_put_strike \in UtilShortPuts :
          probe' = [fn |-> "determine_tested_side", spx_price |-> spx,
                    short_call_strike |-> short_call_strike,
                    short_put_strike |-> short_put_strike,
                    out |-> determine_tested_side(spx, short_call_strike, short_put_strike)]
    /\ SearchIdle

UtilNext ==
    \/ CallCalculatePnl
    \/ CallCalculateCallSidePnl
    \/ CallCalculatePutSidePnl
    \/ CallDetermineTestedSide

UtilSpec == UtilInit /\ [][UtilNext]_vars

---------------------------------------------------------------------------
(* The baseline strategy: qc/spxw_1dte_baseline/main.py (BaselineSpec) *)

\* the attributes initialize() sets
BaselineFresh == [trade |-> None, position_entered |-> FALSE]

\* round(cents / 100 * 0.95, 2) in cents, for 95 * cents given as n: the product
\* is a binary float, so a decimal tie falls to either neighbour
RoundedCents(n) ==
    IF n % 100 = 50 THEN {n \div 100, n \div 100 + 1} ELSE {RoundHalfEven(n, 100)}

\* Spxw1dteBaseline.enter_position(call_spread, put_spread, spx_price, expiry_date);
\* profit_target is the value round(total_credit * 0.95, 2) took
baseline_enter_position(st, cs, ps, spx, profit_target) ==
    LET total_credit == cs.price + ps.price
        legs == << Leg(Symbol(ps.long_leg), 1), Leg(Symbol(ps.short_leg), -1),
                   Leg(Symbol(cs.short_leg), -1), Leg(Symbol(cs.long_leg), 1) >>
        trade == [entry_credit |-> total_credit,
                  call_credit |-> cs.price,
                  put_credit |-> ps.price,
                  profit_target |-> profit_target,
                  max_loss |-> -3 * total_credit,
                  long_put |-> Symbol(ps.long_leg),
                  short_put |-> Symbol(ps.short_leg),
                  short_call |-> Symbol(cs.short_leg),
                  long_call |-> Symbol(cs.long_leg),
                  expiry |-> cs.short_leg.expiry,
                  entry_spx_price |-> spx]
    IN  [combo_market_order(st, legs) EXCEPT
            !.algo = [trade |-> trade, position_entered |-> TRUE]]

\* Spxw1dteBaseline.calculate_pnl(), cents
baseline_calculate_pnl(trade, m, today) ==
    LET put_exit_cost  == Security(m, today, trade.short_put).price
                            - Security(m, today, trade.long_put).price
        call_exit_cost == Security(m, today, trade.short_call).price
                            - Security(m, today, trade.long_call).price
    IN  trade.entry_credit - (put_exit_cost + call_exit_cost)

\* Spxw1dteBaseline.exit_position(reason)
baseline_exit_position(st) ==
    IF ~st.algo.position_entered THEN st
    ELSE [combo_market_order(st, << Leg(st.algo.trade.short_put, 1),
                                    Leg(st.algo.trade.long_put, -1),
                                    Leg(st.algo.trade.short_call, 1),
                                    Leg(st.algo.trade.long_call, -1) >>)
            EXCEPT !.algo = BaselineFresh]

\* Spxw1dteBaseline.monitor_positions() after warm-up
baseline_monitor_positions(a, m, t) ==
    IF ~a.position_entered \/ a.trade = None THEN Took(Run(a), "idle")
    ELSE
      LET Priced(current_pnl, st) ==
              IF current_pnl >= a.trade.profit_target
              THEN baseline_exit_position(Took(st, "profit_target"))
              ELSE IF current_pnl <= a.trade.max_loss
              THEN baseline_exit_position(Took(st, "max_loss"))
              ELSE IF a.trade.expiry = t.day /\ t.hour >= 12 /\ current_pnl > 0
              THEN baseline_exit_position(Took(st, "noon_profitable"))
              ELSE IF a.trade.expiry = t.day /\ t.hour >= 13
              THEN baseline_exit_position(Took(st, "forced"))
              ELSE Took(st, "hold")
          Valued(current_pnl) == Priced(current_pnl, [Run(a) EXCEPT !.pnl = <<current_pnl>>])
      IN  Valued(baseline_calculate_pnl(a.trade, m, t.day))

\* the hours at which the baseline monitor is observed: before noon, at noon, at 1pm
BaselineHours == {10, 12, 13}

\* the entry of the baseline strategy on a condor the finder returned
BaselineEnter ==
    /\ pc = "baseline"
    /\ ~algo.position_entered
    /\ \E cs \in UtilSpreads("CALL"), ps \in UtilSpreads("PUT") :
       \E profit_target \in RoundedCents(95 * (cs.price + ps.price)) :
       \E st \in {baseline_enter_position(Run(algo), cs, ps, market.spx, profit_target)} :
          /\ algo' = st.algo
          /\ tick' = Ticked("enter_position", algo, st, NoEvent)
    /\ UNCHANGED <<pc, now, market, ledger>>
    /\ SearchUnchanged

\* the scheduled monitor of the baseline strategy on some later slice
BaselineMonitor ==
    /\ pc = "baseline"
    /\ \E m \in Markets, day \in 0 .. MaxDay, hour \in BaselineHours :
          /\ market' = m
          /\ now' = [day |-> day, hour |-> hour, ran |-> {}]
          /\ \E st \in {baseline_monitor_positions(algo, m, now')} :
                /\ algo' = st.algo
                /\ tick' = Ticked("monitor_positions", algo, st, NoEvent)
    /\ UNCHANGED <<pc, ledger>>
    /\ SearchUnchanged

BaselineInit ==
    /\ contracts = << >>
    /\ spx_price = 10000
    /\ cfg = ManagerFinder
    /\ pc = "baseline"
    /\ calls = << >>
    /\ puts = << >>
    /\ call_spread = None
    /\ put_spread = None
    /\ tweak_attempts = 0
    /\ result = NoResult
    /\ hist = NoHist
    /\ probe = None
    /\ algo = BaselineFresh
    /\ now = [day |-> 0, hour |-> 10, ran |-> {}]
    /\ market \in Markets
    /\ tick = NoTick
    /\ ledger = NoLedger
    /\ schedule = {}

BaselineNext == BaselineEnter \/ BaselineMonitor

BaselineSpec == BaselineInit /\ [][BaselineNext]_vars

---------------------------------------------------------------------------
(* Properties of the position lifecycle (LifecycleSpec) *)

\* a Trade exists
Open == algo.trade # None

\* the last handler run was monitor_positions and it took the given branch
Monitored(step) ==
    /\ tick.handler = "monitor_positions"
    /\ \E i \in DOMAIN tick.path : tick.path[i] = step

\* the roll_for_side calls of the last handler run that returned a trade
SuccessfulRolls == {i \in DOMAIN tick.rolls : tick.rolls[i].out # None}

\* C12: whenever a Trade exists, after entry and after every successful roll,
\* profit_target is 0.6 times and max_loss is -3.5 times cumulative_credit
\* (credits in cents, targets in tenths of a cent)
TargetsFollowCumulativeCredit ==
    Open => /\ algo.trade.profit_target = 6 * algo.trade.cumulative_credit
            /\ algo.trade.max_loss = -35 * algo.trade.cumulative_credit

\* a trade that was rolled twice after its entry
TargetsFollowWitness ==
    /\ Open
    /\ tick.handler = "monitor_positions"
    /\ SuccessfulRolls # {}
    /\ Len(ledger.rolls) = 2
    /\ algo.trade.cumulative_credit > algo.trade.entry_credit

\* the expiration-day rules the last handler run evaluated to true
RuleSteps ==
    {i \in DOMAIN tick.path :
        tick.path[i] \in {"cheap_call", "cheap_put", "delta_call", "delta_put", "rules"}}

\* the last handler run was a monitoring tick that computed the P&L of an open Trade
MonitoringTick == tick.handler = "monitor_positions" /\ tick.pnl # << >>

HitProfitTarget == 10 * tick.pnl[1] >= tick.pre.trade.profit_target

HitMaxLoss == 10 * tick.pnl[1] <= tick.pre.trade.max_loss

\* C13: a monitoring tick with an open Trade acts on the first condition that
\* applies, in the order profit target, loss limit, expiration-day rules: at the
\* profit target it exits in full and attempts no roll; at the loss limit (and
\* below the profit target) it makes the one roll attempt of the max-loss path and
\* evaluates no cheap-buyback or defensive-delta rule; otherwise it makes no full
\* exit, and the expiration-day rules run only on the expiry day
MonitoringPriority ==
    MonitoringTick =>
        /\ HitProfitTarget =>
              /\ algo = FreshAlgo
              /\ tick.rolls = << >>
              /\ RuleSteps = {}
              /\ tick.path = <<"profit_target">>
        /\ (~HitProfitTarget /\ HitMaxLoss) =>
              /\ Len(tick.rolls) = 1
              /\ RuleSteps = {}
              /\ tick.path[1] = "max_loss"
        /\ (~HitProfitTarget /\ ~HitMaxLoss) =>
              /\ algo.position_entered
              /\ Open
              /\ RuleSteps # {} => tick.pre.trade.expiry = now.day

\* a tick at the loss limit on the expiry day while the short call delta is above
\* 0.30: the roll was attempted and the defensive-delta rule was not evaluated
MonitoringPriorityWitness ==
    /\ MonitoringTick
    /\ ~HitProfitTarget
    /\ HitMaxLoss
    /\ tick.pre.trade.expiry = now.day
    /\ ~tick.pre.call_side_closed
    /\ ChainDelta(OptionChain(market, now.day), tick.pre.trade.short_call) > DefensiveDelta
    /\ Len(tick.rolls) = 1
    /\ RuleSteps = {}

\* the last handler run was a monitoring tick at the loss limit and below the
\* profit target
MaxLossTick == MonitoringTick /\ ~HitProfitTarget /\ HitMaxLoss

\* C14: on a tick at the loss limit (and below the profit target) the manager asks
\* the roll engine once to roll the tested side of the Trade; when the engine
\* returns no-result the manager exits in full in the same tick. After the tick
\* there is either the rolled Trade, still open, or no position, and never the
\* Trade as it was before the tick
MaxLossFallback ==
    MaxLossTick =>
        /\ Len(tick.rolls) = 1
        /\ tick.rolls[1].pre = tick.pre.trade
        /\ tick.rolls[1].side = determine_tested_side(market.spx,
                                                      tick.pre.trade.short_call.strike,
                                                      tick.pre.trade.short_put.strike)
        /\ IF tick.rolls[1].out = None
           THEN /\ algo = FreshAlgo
                /\ tick.orders = <<ExitLegs(tick.pre)>>
           ELSE /\ Open
                /\ algo.position_entered
                /\ algo.trade = tick.rolls[1].out
                /\ algo.trade.expiry > tick.pre.trade.expiry
        /\ algo.trade # tick.pre.trade

\* the roll engine found no candidate with both spreads and the manager closed all
\* four legs in the same tick
MaxLossFallbackWitness ==
    /\ MaxLossTick
    /\ tick.rolls[1].out = None
    /\ tick.rolls[1].line = 90
    /\ Len(tick.orders) = 1
    /\ Len(tick.orders[1]) = 4
    /\ algo = FreshAlgo

\* the last handler run called exit_position: at the profit target, or after a
\* failed roll at the loss limit
FullExit ==
    /\ tick.handler = "monitor_positions"
    /\ \E i \in DOMAIN tick.path : tick.path[i] \in {"profit_target", "roll_failed"}

\* C15: a full exit submits at most one combined closing order; the order holds
\* the closing legs of exactly the sides that are not already closed, the put legs
\* before the call legs (four legs when both sides are open) and no order at all
\* when both sides are closed. The state is cleared whether or not anything
\* fills: no Trade, position_entered false, every closed and pending flag false
FullExitClosesOpenSides ==
    FullExit =>
        LET pre == tick.pre
            put_legs  == << [symbol |-> pre.trade.long_put, quantity |-> -1],
                            [symbol |-> pre.trade.short_put, quantity |-> 1] >>
            call_legs == << [symbol |-> pre.trade.short_call, quantity |-> 1],
                            [symbol |-> pre.trade.long_call, quantity |-> -1] >>
            legs == (IF pre.put_side_closed THEN << >> ELSE put_legs)
                      \o (IF pre.call_side_closed THEN << >> ELSE call_legs)
        IN  /\ Len(tick.orders) <= 1
            /\ tick.orders = IF legs = << >> THEN << >> ELSE <<legs>>
            /\ algo.trade = None
            /\ ~algo.position_entered
            /\ ~algo.call_side_closed
            /\ ~algo.put_side_closed
            /\ ~algo.pending_call_side_close
            /\ ~algo.pending_put_side_close

\* a full exit while the call side was closed and the put side was not: one order
\* with the two put legs and nothing else
FullExitWitness ==
    /\ FullExit
    /\ tick.pre.call_side_closed
    /\ ~tick.pre.put_side_closed
    /\ Len(tick.orders) = 1
    /\ Len(tick.orders[1]) = 2
    /\ tick.orders[1][1].symbol = tick.pre.trade.long_put
    /\ algo = FreshAlgo

\* the step ends a handler run in which exactly one partial close was ordered
PartialCloseOrdered(step) ==
    /\ tick'.handler = "monitor_positions"
    /\ tick'.path = <<step, "rules">>

\* the step is a FILLED order event for one of the given legs of the Trade
FilledFor(legs) ==
    /\ tick'.handler = "on_order_event"
    /\ tick'.event.status = "Filled"
    /\ Open
    /\ tick'.event.symbol \in legs

\* C16: ordering the close of one side only marks that side pending-close and
\* submits its two closing legs; a closed flag goes from false to true only in
\* on_order_event, on a FILLED event whose symbol is a current leg of that side
\* while that side is pending-close. No other event or operation sets a closed flag
PendingCloseReconciliation ==
    [][/\ PartialCloseOrdered("cheap_call") =>
             /\ algo'.pending_call_side_close
             /\ algo'.call_side_closed = algo.call_side_closed
             /\ algo'.put_side_closed = algo.put_side_closed
             /\ ~algo.pending_call_side_close =>
                   tick'.orders = << << [symbol |-> algo.trade.short_call, quantity |-> 1],
                                        [symbol |-> algo.trade.long_call, quantity |-> -1] >> >>
       /\ PartialCloseOrdered("cheap_put") =>
             /\ algo'.pending_put_side_close
             /\ algo'.call_side_closed = algo.call_side_closed
             /\ algo'.put_side_closed = algo.put_side_closed
             /\ ~algo.pending_put_side_close =>
                   tick'.orders = << << [symbol |-> algo.trade.short_put, quantity |-> 1],
                                        [symbol |-> algo.trade.long_put, quantity |-> -1] >> >>
       /\ (algo'.call_side_closed /\ ~algo.call_side_closed) =>
             /\ FilledFor({algo.trade.short_call, algo.trade.long_call})
             /\ algo.pending_call_side_close
       /\ (algo'.put_side_closed /\ ~algo.put_side_closed) =>
             /\ FilledFor({algo.trade.short_put, algo.trade.long_put})
             /\ algo.pending_put_side_close
      ]_vars

\* the fill of the long call arrived while the call side was pending-close: the
\* call side is closed and no longer pending, the put side is untouched
PendingCloseWitness ==
    /\ tick.handler = "on_order_event"
    /\ tick.event.status = "Filled"
    /\ tick.pre.pending_call_side_close
    /\ ~tick.pre.call_side_closed
    /\ tick.event.symbol = tick.pre.trade.long_call
    /\ algo.call_side_closed
    /\ ~algo.pending_call_side_close
    /\ ~algo.put_side_closed

---------------------------------------------------------------------------
(* Properties of the roll engine, over the roll_for_side calls of the last *)
(* handler run (LifecycleSpec)                                              *)

\* the passes of a roll_for_side call that built both spreads
ValidPasses(r) == {i \in DOMAIN r.evals : r.evals[i].stage = "valid"}

\* C17: a roll_for_side call returns a roll exactly when some candidate expiry
\* yields both the tested and the untested spread, and then no such candidate has a
\* strictly larger roll_credit than the selected one, where roll_credit is the new
\* combined credit minus the cost of closing the four current legs
RollSelectsMaximalCredit ==
    \A n \in DOMAIN tick.rolls :
        LET r == tick.rolls[n]
        IN  /\ (r.out # None) <=> (ValidPasses(r) # {})
            /\ \A i \in ValidPasses(r) :
                  /\ r.evals[i].roll_credit =
                        (r.evals[i].tested.price + r.evals[i].untested.price)
                          - close_cost(r.pre, market, now.day)
                  /\ r.evals[i].roll_credit <= r.best.roll_credit
            /\ (r.out # None) =>
                  /\ \E i \in ValidPasses(r) : r.best = r.evals[i]
                  /\ r.post.expiry = r.best.seen.expiry
                  /\ r.post.short_call \in {Symbol(r.best.tested.short_leg),
                                            Symbol(r.best.untested.short_leg)}

\* two valid candidates, the later expiry with the strictly larger roll_credit, and
\* the later one selected
RollSelectsWitness ==
    \E n \in DOMAIN tick.rolls :
        LET r == tick.rolls[n]
        IN  /\ r.out # None
            /\ \E i \in ValidPasses(r), j \in ValidPasses(r) :
                  /\ i < j
                  /\ r.evals[i].roll_credit < r.evals[j].roll_credit
                  /\ r.best = r.evals[j]
                  /\ r.post.expiry = r.evals[j].seen.expiry

\* how many contracts of the given rights the slice lists for the expiry e
ListedCount(e, rights) ==
    LET chain == OptionChain(market, now.day)
    IN  Cardinality({k \in DOMAIN chain : chain[k].expiry = e /\ chain[k].right \in rights})

\* the passes of a roll_for_side call that went on to build spreads
EvaluatedPasses(r) == {i \in DOMAIN r.evals : r.evals[i].stage \in {"spreads", "valid"}}

\* C18: every expiry the roll engine evaluates is strictly later than the expiry
\* the Trade had before the roll, is at most 7 calendar days after today, and
\* lists at least 4 contracts with at least 2 calls and at least 2 puts; so is the
\* expiry of every rolled Trade
RollEligibility ==
    \A n \in DOMAIN tick.rolls :
        LET r == tick.rolls[n]
            Eligible(e) == /\ e > r.pre.expiry
                           /\ e <= now.day + 7
                           /\ ListedCount(e, {"CALL", "PUT"}) >= 4
                           /\ ListedCount(e, {"CALL"}) >= 2
                           /\ ListedCount(e, {"PUT"}) >= 2
        IN  /\ \A i \in EvaluatedPasses(r) : Eligible(r.evals[i].seen.expiry)
            /\ (r.out # None) => Eligible(r.post.expiry)

\* a roll on the expiry day of the Trade, with the expiring day and a day beyond
\* the horizon both listing full chains: neither was evaluated
RollEligibilityWitness ==
    \E n \in DOMAIN tick.rolls :
        LET r == tick.rolls[n]
        IN  /\ r.out # None
            /\ r.pre.expiry = now.day
            /\ ListedCount(now.day, {"CALL", "PUT"}) >= 4
            /\ ListedCount(now.day + 8, {"CALL", "PUT"}) >= 4
            /\ EvaluatedPasses(r) # {}
            /\ \A i \in DOMAIN r.evals :
                  r.evals[i].seen.expiry \notin {now.day, now.day + 8}

\* the 8-leg roll orders among the orders of the last handler run
RollOrders == {k \in DOMAIN tick.orders : Len(tick.orders[k]) = 8}

\* C19: when the slice has no chain, no expiry is eligible, or no candidate expiry
\* yields both a valid tested and a valid untested spread, roll_for_side returns
\* no-result, submits no order and leaves every field of the Trade as it was
RollFailureChangesNothing ==
    /\ \A n \in DOMAIN tick.rolls :
          LET r == tick.rolls[n]
          IN  (\/ OptionChain(market, now.day) = << >>
               \/ r.evals = << >>
               \/ ValidPasses(r) = {}) =>
                  /\ r.out = None
                  /\ r.order = << >>
                  /\ r.post = r.pre
                  /\ r.line \in {39, 47, 90}
    /\ Cardinality(RollOrders) = Cardinality(SuccessfulRolls)
    /\ (tick.rolls # << >> /\ SuccessfulRolls = {} /\ Open) => algo.trade = tick.pre.trade

\* a defensive roll of the call side for which no candidate expiry built both
\* spreads: the Trade is still open and is the Trade the tick started with
RollFailureWitness ==
    /\ Monitored("delta_call")
    /\ Len(tick.rolls) = 1
    /\ tick.rolls[1].out = None
    /\ tick.rolls[1].line = 90
    /\ tick.rolls[1].evals # << >>
    /\ Open
    /\ algo.trade = tick.pre.trade

\* the sum of the credits of a ledger
RECURSIVE SumCredits(_, _)
SumCredits(credits, i) ==
    IF i > Len(credits) THEN 0 ELSE credits[i] + SumCredits(credits, i + 1)

\* C20: a successful roll returns the Trade it was given with all four legs and
\* both per-side credits replaced by those of the selected tested and untested
\* spreads, expiry set to the selected expiration and cumulative_credit raised by
\* the new combined credit; after k successful rolls cumulative_credit is the
\* entry credit plus the sum of the k new combined credits
RollMutatesTradeInPlace ==
    /\ \A n \in SuccessfulRolls :
          LET r        == tick.rolls[n]
              call_new == IF r.side = "call" THEN r.best.tested ELSE r.best.untested
              put_new  == IF r.side = "call" THEN r.best.untested ELSE r.best.tested
          IN  /\ r.out = r.post
              /\ r.post.short_call = Symbol(call_new.short_leg)
              /\ r.post.long_call = Symbol(call_new.long_leg)
              /\ r.post.short_put = Symbol(put_new.short_leg)
              /\ r.post.long_put = Symbol(put_new.long_leg)
              /\ r.post.call_credit = call_new.price
              /\ r.post.put_credit = put_new.price
              /\ r.post.expiry = r.best.seen.expiry
              /\ r.post.cumulative_credit = r.pre.cumulative_credit + r.best.new_credit
              /\ r.best.new_credit = call_new.price + put_new.price
              /\ \A m \in SuccessfulRolls :
                    m < n => \/ tick.rolls[m].post = r.pre
                             \/ \E k \in SuccessfulRolls : m < k /\ k < n
    /\ (Open /\ SuccessfulRolls # {}) =>
          \E n \in SuccessfulRolls :
             /\ \A m \in SuccessfulRolls : m <= n
             /\ algo.trade = tick.rolls[n].post
    /\ Open => algo.trade.cumulative_credit = ledger.entry + SumCredits(ledger.rolls, 1)

\* a trade rolled for the second time, each time into legs of a later expiration
RollMutatesWitness ==
    /\ Open
    /\ Len(ledger.rolls) = 2
    /\ \E n \in SuccessfulRolls :
          /\ algo.trade = tick.rolls[n].post
          /\ tick.rolls[n].post.expiry > tick.rolls[n].pre.expiry
          /\ tick.rolls[n].post.short_call # tick.rolls[n].pre.short_call
          /\ tick.rolls[n].post.short_put # tick.rolls[n].pre.short_put
          /\ tick.rolls[n].pre.cumulative_credit > ledger.entry

---------------------------------------------------------------------------
(* Entry and monitoring gates (LifecycleSpec) *)

\* the last handler run was check_entry
EntryTick == tick.handler = "check_entry"

\* the contracts of tomorrow's expiry, which search_and_enter_iron_condor searches
TomorrowContracts ==
    SelectSeq(OptionChain(market, now.day), LAMBDA x : x.expiry = now.day + 1)

\* what the condor search answers on the slice of the last check_entry run
SearchAnswer ==
    IF TomorrowContracts = << >> THEN ReturnNone(0)
    ELSE find_iron_condor(TomorrowContracts, market.spx, cfg)

\* C21: an entry order is submitted and a Trade created only by check_entry, with
\* no position entered, the VIX term structure in contango and a condor found;
\* when the search finds none the run submits nothing, searches once and leaves
\* the attributes as they were, so that a later check_entry may search again
EntryGating ==
    /\ (tick.handler \in {"monitor_positions", "on_order_event"} /\ tick.pre.trade = None)
          => algo.trade = None
    /\ EntryTick =>
          /\ (tick.orders # << >> \/ algo # tick.pre) =>
                /\ ~tick.pre.position_entered
                /\ tick.event.status = "contango"
                /\ SearchAnswer.kind = "ok"
                /\ Len(tick.orders) = 1
                /\ algo.position_entered
                /\ algo.trade # None
                /\ algo.trade.short_call = Symbol(SearchAnswer.call_spread.short_leg)
                /\ algo.trade.short_put = Symbol(SearchAnswer.put_spread.short_leg)
          /\ (/\ ~tick.pre.position_entered
              /\ tick.event.status = "contango"
              /\ SearchAnswer.kind = "none") =>
                /\ tick.orders = << >>
                /\ algo = tick.pre
                /\ ~algo.position_entered
                /\ Len(tick.path) = 1
                /\ pc = "live"

\* the entry of the second day, after a first day on which nothing was entered
EntryGatingWitness ==
    /\ EntryTick
    /\ now.day = 1
    /\ tick.pre = FreshAlgo
    /\ tick.event.status = "contango"
    /\ Len(tick.orders) = 1
    /\ Len(tick.orders[1]) = 4
    /\ algo.position_entered
    /\ ledger.entry = algo.trade.entry_credit

\* an order that closes one side of a condor: the short bought, the long sold
IsSideClose(order, right) ==
    /\ Len(order) = 2
    /\ order[1].symbol.right = right
    /\ order[2].symbol.right = right
    /\ order[1].quantity = 1
    /\ order[2].quantity = -1

\* the roll_for_side calls of the last handler run made by a defensive-delta rule
DefensiveCalls ==
    IF Monitored("rules") THEN DOMAIN tick.rolls ELSE {}

\* at every defensive roll call the other side is closed, or a close order for it
\* was submitted earlier in the run or is pending from an earlier run
RollAfterOtherSideClose ==
    \A n \in DefensiveCalls :
       LET side   == tick.rolls[n].side
           at     == tick.calls[n]
           right  == IF side = "call" THEN "PUT" ELSE "CALL"
           closed == IF side = "call" THEN at.algo.put_side_closed
                     ELSE at.algo.call_side_closed
           pending(a) == IF side = "call" THEN a.pending_put_side_close
                         ELSE a.pending_call_side_close
       IN  /\ closed \/ pending(at.algo)
           /\ (~closed /\ ~pending(tick.pre)) =>
                 \E k \in 1 .. at.orders : IsSideClose(tick.orders[k], right)
           /\ tick.rolls[n].order # << >> => tick.orders[at.orders + 1] = tick.rolls[n].order

\* a pending flag is raised only by a run that submitted the close of that side
PendingFollowsCloseOrder ==
    /\ (~algo.pending_put_side_close /\ algo'.pending_put_side_close) =>
          \E k \in DOMAIN tick'.orders : IsSideClose(tick'.orders[k], "PUT")
    /\ (~algo.pending_call_side_close /\ algo'.pending_call_side_close) =>
          \E k \in DOMAIN tick'.orders : IsSideClose(tick'.orders[k], "CALL")

\* C22: on expiration day a defensive roll of one side is attempted only once the
\* other side is closed or its close order has been submitted, in the same run
\* before the roll or in an earlier run; it is never attempted while the other
\* side is open with no close submitted
DefensiveRollOrdering ==
    [][RollAfterOtherSideClose' /\ PendingFollowsCloseOrder]_vars

\* a call-side roll in a run that first had to submit the close of the open put side
DefensiveRollOrderingWitness ==
    /\ Monitored("delta_call")
    /\ Len(tick.rolls) = 1
    /\ tick.rolls[1].side = "call"
    /\ ~tick.pre.put_side_closed
    /\ ~tick.pre.pending_put_side_close
    /\ tick.calls[1].orders = 1
    /\ IsSideClose(tick.orders[1], "PUT")
    /\ tick.rolls[1].out # None
    /\ Len(tick.orders) = 2

---------------------------------------------------------------------------
(* Properties of the functions of util.py (UtilSpec) *)

PnlCalled ==
    /\ pc = "done"
    /\ probe.fn \in {"calculate_pnl", "calculate_call_side_pnl", "calculate_put_side_pnl"}

\* the last price of a leg of the probed trade
LegPrice(symbol) == Security(probe.market, 0, symbol).price

\* what one side adds to the P&L: its credit when closed, else its credit less
\* the cost of buying the short and selling the long at the current prices
CallSideValue ==
    IF probe.call_side_closed THEN probe.trade.call_credit
    ELSE probe.trade.call_credit
           - (LegPrice(probe.trade.short_call) - LegPrice(probe.trade.long_call))

PutSideValue ==
    IF probe.put_side_closed THEN probe.trade.put_credit
    ELSE probe.trade.put_credit
           - (LegPrice(probe.trade.short_put) - LegPrice(probe.trade.long_put))

\* C23: the P&L is the sum over both sides, where an open side adds
\* side_credit - (short price - long price) at the current quotes and a closed side
\* adds exactly its side_credit whatever the quotes; with both sides closed it is
\* call_credit + put_credit
ClosedSideFrozen ==
    PnlCalled =>
       /\ probe.fn = "calculate_pnl" => probe.out = CallSideValue + PutSideValue
       /\ probe.fn = "calculate_call_side_pnl" => probe.out = CallSideValue
       /\ probe.fn = "calculate_put_side_pnl" => probe.out = PutSideValue
       /\ (/\ probe.fn = "calculate_pnl"
           /\ probe.call_side_closed
           /\ probe.put_side_closed) =>
              probe.out = probe.trade.call_credit + probe.trade.put_credit

\* the call side is closed while its legs are quoted far above the credit, and the
\* put side is open
ClosedSideFrozenWitness ==
    /\ pc = "done"
    /\ probe.fn = "calculate_pnl"
    /\ probe.call_side_closed
    /\ ~probe.put_side_closed
    /\ LegPrice(probe.trade.short_call) - LegPrice(probe.trade.long_call)
          > probe.trade.call_credit
    /\ LegPrice(probe.trade.short_put) # LegPrice(probe.trade.long_put)
    /\ probe.out = probe.trade.call_credit + PutSideValue

---------------------------------------------------------------------------
(* Properties of the spread builders, continued (BuilderSpec) *)

\* one of the three builders returned a spread
BuiltSpread ==
    /\ pc = "done"
    /\ probe.fn \in {"build_spread", "find_initial_spread", "find_spread_with_target_delta"}
    /\ IsSpread(probe.out)

\* the strike spread_width beyond the short leg of the spread built
FarStrike ==
    IF probe.out.side = "CALL"
    THEN probe.out.short_leg.strike + probe.width
    ELSE probe.out.short_leg.strike - probe.width

\* the contracts of the list that lie beyond the short leg of the spread built
BeyondShort ==
    {c \in Range(probe.contracts) :
        IF probe.out.side = "CALL" THEN c.strike > probe.out.short_leg.strike
        ELSE c.strike < probe.out.short_leg.strike}

\* C24 as stated: every spread any builder returns has its long strike exactly
\* spread_width beyond its short strike
FixedSpreadWidth ==
    BuiltSpread => probe.out.long_leg.strike = FarStrike

\* C24: the spreads of find_initial_spread and find_spread_with_target_delta have
\* the long strike exactly spread_width beyond the short strike; a spread of
\* build_spread has it whenever that strike is listed, and otherwise its long leg
\* is the listed contract beyond the short leg nearest to that strike
FixedSpreadWidthWhereListed ==
    BuiltSpread =>
       IF probe.fn # "build_spread" \/ (\E c \in BeyondShort : c.strike = FarStrike)
       THEN probe.out.long_leg.strike = FarStrike
       ELSE /\ probe.out.long_leg \in BeyondShort
            /\ probe.out.long_leg.strike # FarStrike
            /\ \A c \in BeyondShort :
                  Abs(probe.out.long_leg.strike - FarStrike) <= Abs(c.strike - FarStrike)

\* build_spread on a grid that lists every other strike: the put spread asked to be
\* 5 wide is 10 wide
FixedSpreadWidthWitness ==
    /\ BuiltSpread
    /\ probe.fn = "build_spread"
    /\ probe.side = "PUT"
    /\ probe.width = 5
    /\ probe.out.long_leg.strike = probe.out.short_leg.strike - 10
    /\ Len(probe.contracts) > 2

\* a move of the tweak loop returned a spread
Moved ==
    /\ pc = "done"
    /\ probe.fn \in {"move_spread_up", "move_spread_away"}
    /\ IsSpread(probe.out)

\* the distance of a strike (points) from the spot (cents)
FromSpot(strike) == Abs(100 * strike - probe.spx_price)

\* C25: whenever a move returns a spread, a move toward the money yields a short
\* strike strictly closer to the spot than the previous one and a move away yields
\* one strictly farther, on every candidate list
MoveSemantics ==
    Moved =>
       /\ probe.fn = "move_spread_up" =>
             FromSpot(probe.out.short_leg.strike) < FromSpot(probe.spread.short_leg.strike)
       /\ probe.fn = "move_spread_away" =>
             FromSpot(probe.out.short_leg.strike) > FromSpot(probe.spread.short_leg.strike)

---------------------------------------------------------------------------
(* Properties of the baseline strategy (BaselineSpec) *)

\* the last handler run was the baseline monitor and it valued the position
BaselineValued ==
    /\ pc = "baseline"
    /\ tick.handler = "monitor_positions"
    /\ tick.pnl # << >>

\* C26: the Trade the baseline strategy creates has profit_target = 0.60 x entry
\* credit and max_loss = -3.0 x entry credit (cents, the target rounded to a
\* cent), the position is exited when the P&L reaches 60% of the entry credit or
\* -3 times the entry credit, and the profit check comes before the loss check
BaselineDocumentedThresholds ==
    pc = "baseline" =>
       /\ algo.trade # None =>
             /\ algo.trade.profit_target \in RoundedCents(60 * algo.trade.entry_credit)
             /\ algo.trade.max_loss = -3 * algo.trade.entry_credit
       /\ BaselineValued =>
             /\ 100 * tick.pnl[1] >= 60 * tick.pre.trade.entry_credit
                   => (tick.path = <<"profit_target">> /\ algo.trade = None)
             /\ (/\ 100 * tick.pnl[1] < 60 * tick.pre.trade.entry_credit
                 /\ tick.pnl[1] <= -3 * tick.pre.trade.entry_credit)
                   => (tick.path = <<"max_loss">> /\ algo.trade = None)

\* position i, among the positions S of cs, is the one the exact-then-nearest
\* rule selects for strike k: the first contract at strike k and, when no
\* contract of S has that strike, the first of those nearest to k
Selects(cs, S, i, k) ==
    /\ i \in S
    /\ \/ /\ cs[i].strike = k
          /\ \A j \in S : cs[j].strike = k => i <= j
       \/ /\ \A j \in S : cs[j].strike # k
          /\ \A j \in S : Abs(cs[i].strike - k) <= Abs(cs[j].strike - k)
          /\ \A j \in S : Abs(cs[i].strike - k) = Abs(cs[j].strike - k) => i <= j

\* the positions of cs strictly beyond the strike of the short leg
Beyond(cs, side, short_strike) ==
    {j \in DOMAIN cs : IF side = "CALL" THEN cs[j].strike > short_strike
                       ELSE cs[j].strike < short_strike}

BuildSpreadCalled == pc = "done" /\ probe.fn = "build_spread"

\* C27: build_spread takes as short leg the contract at the target strike, else
\* the nearest one with ties going to the first in list order; it takes the long
\* leg by the same rule toward short strike +/- spread_width among the contracts
\* strictly beyond the short leg; it returns none exactly when the list is empty
\* or no contract lies beyond the short leg
BuildSpreadSelection ==
    BuildSpreadCalled =>
       LET cs == probe.contracts
           Chosen(s) ==
              LET subset == Beyond(cs, probe.side, cs[s].strike)
                  target_long == IF probe.side = "CALL" THEN cs[s].strike + probe.width
                                 ELSE cs[s].strike - probe.width
              IN  IF subset = {} THEN probe.out = None
                  ELSE /\ IsSpread(probe.out)
                       /\ probe.out.short_leg = cs[s]
                       /\ \E l \in subset : /\ Selects(cs, subset, l, target_long)
                                            /\ probe.out.long_leg = cs[l]
       IN  IF cs = << >> THEN probe.out = None
           ELSE \E s \in DOMAIN cs : /\ Selects(cs, DOMAIN cs, s, probe.target)
                                     /\ Chosen(s)

\* a build in which both legs are the first of two equally near contracts
BuildSpreadSelectionWitness ==
    /\ BuildSpreadCalled
    /\ IsSpread(probe.out)
    /\ \E j \in DOMAIN probe.contracts :
          /\ probe.contracts[j] # probe.out.short_leg
          /\ Abs(probe.contracts[j].strike - probe.target)
                = Abs(probe.out.short_leg.strike - probe.target)
    /\ Abs(probe.out.long_leg.strike - probe.out.short_leg.strike) # probe.width

TestedSideCalled == pc = "done" /\ probe.fn = "determine_tested_side"

\* C28: determine_tested_side names the call side when the short call is nearer
\* to spot (short_call_strike - spot < spot - short_put_strike), the put side
\* when the put distance is the smaller one, and names exactly one of the two
\* sides on every input, equal distances and a spot beyond a short strike included
TestedSideIsNearer ==
    TestedSideCalled =>
       LET call_distance == 100 * probe.short_call_strike - probe.spx_price
           put_distance  == probe.spx_price - 100 * probe.short_put_strike
       IN  /\ probe.out \in {"call", "put"}
           /\ call_distance < put_distance => probe.out = "call"
           /\ put_distance < call_distance => probe.out = "put"

\* the function was called with spot beyond the short call and with the two
\* short strikes apart
TestedSideIsNearerWitness ==
    /\ TestedSideCalled
    /\ probe.spx_price > 100 * probe.short_call_strike
    /\ probe.short_put_strike < probe.short_call_strike
    /\ probe.out = "call"

---------------------------------------------------------------------------
(* The expiration-day gate (LifecycleSpec) *)

\* the tick of the last handler run, a monitoring run, falls on the expiry day of
\* the Trade it found, at or after 09:00
ExpiryDayTick ==
    /\ tick.pre.trade # None
    /\ tick.pre.trade.expiry = now.day
    /\ now.hour >= 9

\* net buyback cost of a side of the Trade the tick found: short bid - long ask
BuybackCost(short, long) ==
    Security(market, now.day, short).bid_price - Security(market, now.day, long).ask_price

\* the orders of the tick that close one side only, outside a full exit
PartialCloses ==
    {i \in DOMAIN tick.orders :
        /\ IsSideClose(tick.orders[i], "CALL") \/ IsSideClose(tick.orders[i], "PUT")
        /\ ~Monitored("profit_target")
        /\ ~Monitored("max_loss")}

\* C29: cheap-buyback closes and defensive-delta rolls happen only on a tick of
\* the Trade's expiry day at or after 09:00; on any other tick monitoring only
\* holds, exits in full or takes the max-loss roll path; and a cheap-buyback
\* close is made only for a side that is not closed and whose net buyback cost
\* is at most 0.20
ExpirationDayGate ==
    (pc = "live" /\ tick.handler = "monitor_positions") =>
       /\ (RuleSteps # {} \/ PartialCloses # {}) => ExpiryDayTick
       /\ ~ExpiryDayTick =>
             \/ tick.path \in {<<"idle">>, <<"early">>, <<"hold">>}
             \/ tick.path = <<"profit_target">> /\ algo = FreshAlgo
             \/ tick.path[1] = "max_loss" /\ Len(tick.rolls) = 1
       /\ Monitored("cheap_call") =>
             /\ ~tick.pre.call_side_closed
             /\ BuybackCost(tick.pre.trade.short_call, tick.pre.trade.long_call)
                   <= CheapBuyback
       /\ Monitored("cheap_put") =>
             /\ ~tick.pre.put_side_closed
             /\ BuybackCost(tick.pre.trade.short_put, tick.pre.trade.long_put)
                   <= CheapBuyback
       /\ \A i \in PartialCloses :
             \/ /\ IsSideClose(tick.orders[i], "CALL")
                /\ Monitored("cheap_call") \/ Monitored("delta_put")
             \/ /\ IsSideClose(tick.orders[i], "PUT")
                /\ Monitored("cheap_put") \/ Monitored("delta_call")

\* an expiry-day tick that closed the cheap call side while the put side stayed
ExpirationDayGateWitness ==
    /\ pc = "live"
    /\ tick.handler = "monitor_positions"
    /\ ExpiryDayTick
    /\ Monitored("cheap_call")
    /\ ~Monitored("cheap_put")
    /\ PartialCloses # {}

---------------------------------------------------------------------------
(* The target-delta builder (BuilderSpec) *)

TargetDeltaCalled == pc = "done" /\ probe.fn = "find_spread_with_target_delta"

\* the strike of the long leg that goes with a short leg at the given strike
LongStrikeFor(strike) ==
    IF probe.side = "call" THEN strike + probe.width ELSE strike - probe.width

\* contract i of the list may be the short leg: its absolute delta is at most the
\* target and a contract is listed exactly spread_width beyond it
Qualifies(i) ==
    /\ Abs(probe.contracts[i].delta) <= probe.max_delta
    /\ \E j \in DOMAIN probe.contracts :
          probe.contracts[j].strike = LongStrikeFor(probe.contracts[i].strike)

\* C30: find_spread_with_target_delta returns the first contract in list order
\* whose absolute delta is at most the target and that has a long leg listed
\* exactly spread_width away on the side's far side, passing over earlier
\* contracts that fail either test; the short-leg delta of a returned spread
\* never exceeds the target; it returns none when no contract qualifies
TargetDeltaFirstQualifying ==
    TargetDeltaCalled =>
       IF \E i \in DOMAIN probe.contracts : Qualifies(i)
       THEN /\ IsSpread(probe.out)
            /\ probe.out.delta <= probe.max_delta
            /\ Abs(probe.out.short_leg.delta) <= probe.max_delta
            /\ \E i \in DOMAIN probe.contracts :
                  /\ Qualifies(i)
                  /\ \A j \in 1 .. (i - 1) : ~Qualifies(j)
                  /\ probe.out.short_leg = probe.contracts[i]
                  /\ probe.out.long_leg.strike = LongStrikeFor(probe.contracts[i].strike)
                  /\ \E l \in DOMAIN probe.contracts :
                        probe.out.long_leg = probe.contracts[l]
       ELSE probe.out = None

\* a returned spread whose short leg comes after a contract passed over for its
\* delta and after one passed over for its missing long leg
TargetDeltaFirstQualifyingWitness ==
    /\ TargetDeltaCalled
    /\ IsSpread(probe.out)
    /\ \E i \in DOMAIN probe.contracts :
          /\ probe.contracts[i] = probe.out.short_leg
          /\ \E j \in 1 .. (i - 1) :
                Abs(probe.contracts[j].delta) > probe.max_delta
          /\ \E j \in 1 .. (i - 1) :
                /\ Abs(probe.contracts[j].delta) <= probe.max_delta
                /\ ~Qualifies(j)

---------------------------------------------------------------------------
(* Orders against the legs of the Trade (LifecycleSpec) *)

\* the order holds a closing leg of the given side of the trade: a buy of its
\* short leg or a sale of its long leg
ClosesSide(order, trade, side) ==
    \E n \in DOMAIN order :
       \/ /\ order[n].quantity = 1
          /\ order[n].symbol = (IF side = "call" THEN trade.short_call ELSE trade.short_put)
       \/ /\ order[n].quantity = -1
          /\ order[n].symbol = (IF side = "call" THEN trade.long_call ELSE trade.long_put)

\* the side of the Trade the tick found was pending-close or closed when the
\* handler started
ClosedOrPending(side) ==
    IF side = "call"
    THEN tick.pre.call_side_closed \/ tick.pre.pending_call_side_close
    ELSE tick.pre.put_side_closed \/ tick.pre.pending_put_side_close

\* C31: no order the manager submits holds a closing leg for a side of the
\* current Trade whose close order was already submitted or confirmed: not for a
\* side that was pending-close or closed when the handler started, and not for a
\* side an earlier order of the same handler run already closes; this covers the
\* roll order of roll_for_side and the full-exit order of exit_position
NoDoubleClose ==
    (pc = "live" /\ tick.handler = "monitor_positions" /\ tick.pre.trade # None) =>
       \A side \in {"call", "put"} : \A k \in DOMAIN tick.orders :
          ClosesSide(tick.orders[k], tick.pre.trade, side) =>
             /\ ~ClosedOrPending(side)
             /\ \A j \in 1 .. (k - 1) : ~ClosesSide(tick.orders[j], tick.pre.trade, side)

\* C32: summing per contract the signed quantities of every order submitted so
\* far (entries, partial closes, rolls, full exits), each contract nets to zero
\* in every state where no Trade is present: nothing an entry or a roll opened
\* is left open, and nothing is closed more often than it was opened
FlatWhenIdle ==
    (pc = "live" /\ algo.trade = None) => ledger.net = {}

\* the last thing the monitoring run did was a roll_for_side call that returned
\* a trade: the state after the tick is the state right after that roll
JustRolled ==
    /\ pc = "live"
    /\ tick.handler = "monitor_positions"
    /\ tick.rolls # << >>
    /\ tick.rolls[Len(tick.rolls)].out # None
    /\ tick.orders # << >>
    /\ tick.orders[Len(tick.orders)] = tick.rolls[Len(tick.rolls)].order

\* C33: right after any successful roll, the max-loss roll and the defensive
\* roll of the expiry day alike, both side-closed flags and both pending-close
\* flags are false, so that the four legs just opened all count as open
FlagsClearAfterRoll ==
    JustRolled =>
       /\ ~algo.call_side_closed
       /\ ~algo.put_side_closed
       /\ ~algo.pending_call_side_close
       /\ ~algo.pending_put_side_close

---------------------------------------------------------------------------
(* A Trade with both sides closed (LongRunSpec) *)

\* a monitoring tick, past the 09:00 gate of the expiry day, that found a Trade
\* with both sides confirmed closed
MonitoredClosedTrade ==
    /\ pc = "live"
    /\ tick.handler = "monitor_positions"
    /\ tick.pre.trade # None
    /\ tick.pre.call_side_closed
    /\ tick.pre.put_side_closed
    /\ tick.path # <<"early">>

\* C34: a Trade with both sides confirmed closed does not persist: the
\* monitoring tick delivered next clears it and returns to no position, so that
\* a later entry trigger can open a new position; this holds for Trades that
\* have been rolled as well
ClosedTradeIsCleared ==
    MonitoredClosedTrade => (algo.trade = None /\ ~algo.position_entered)

\* C35: one run of monitor_positions submits at most one roll order and changes
\* the legs and expiry of the Trade at most once, and each defensive roll is
\* decided on the delta of the short leg the Trade holds on that side when
\* roll_for_side is called
AtMostOneRollPerTick ==
    (pc = "live" /\ tick.handler = "monitor_positions") =>
       /\ Cardinality(RollOrders) <= 1
       /\ Cardinality(SuccessfulRolls) <= 1
       /\ (Monitored("delta_call") \/ Monitored("delta_put")) =>
             \A n \in DOMAIN tick.rolls :
                ChainDelta(OptionChain(market, now.day),
                           IF tick.rolls[n].side = "call"
                           THEN tick.rolls[n].pre.short_call
                           ELSE tick.rolls[n].pre.short_put) > DefensiveDelta

---------------------------------------------------------------------------
(* position_entered and the Trade (LifecycleSpec) *)

\* the four leg identifiers of a trade
LegsOf(trade) == {trade.short_call, trade.long_call, trade.short_put, trade.long_put}

\* C36: between handler runs and fill events position_entered is true exactly
\* when a Trade is present; a Trade that is present references exactly four
\* leg identifiers, two calls and two puts; and check_entry called while
\* position_entered is true submits nothing and leaves the Trade as it is, so
\* there is never more than one Trade
EnteredIffTrade ==
    pc \in {"live", "halted"} =>
       /\ algo.position_entered <=> algo.trade # None
       /\ algo.trade # None =>
             /\ Cardinality(LegsOf(algo.trade)) = 4
             /\ \A s \in LegsOf(algo.trade) : s.right \in {"CALL", "PUT"}
             /\ algo.trade.short_call.right = "CALL"
             /\ algo.trade.long_call.right = "CALL"
             /\ algo.trade.short_put.right = "PUT"
             /\ algo.trade.long_put.right = "PUT"
       /\ (tick.handler = "check_entry" /\ tick.pre.position_entered) =>
             /\ tick.orders = << >>
             /\ algo = tick.pre

\* the entry trigger fired while the Trade entered the day before was still held
EnteredIffTradeWitness ==
    /\ pc = "live"
    /\ tick.handler = "check_entry"
    /\ tick.pre.position_entered
    /\ algo.trade # None
    /\ now.day > 0

---------------------------------------------------------------------------
(* Partial closes (LifecycleSpec) *)

\* the order exit_call_side / exit_put_side submits for a trade
SideCloseLegs(trade, side) ==
    IF side = "call"
    THEN << Leg(trade.short_call, 1), Leg(trade.long_call, -1) >>
    ELSE << Leg(trade.short_put, 1), Leg(trade.long_put, -1) >>

\* the partial close orders of the tick for a side of the Trade the tick found
PartialClosesOf(side) ==
    {k \in DOMAIN tick.orders : tick.orders[k] = SideCloseLegs(tick.pre.trade, side)}

\* exit_call_side in the current state: a no-op on a pending or closed side,
\* else one order and the pending flag; a second call changes nothing more
CallCloseIdempotent ==
    LET Checked(st, once) ==
            /\ (algo.call_side_closed \/ algo.pending_call_side_close) => once = st
            /\ ~(algo.call_side_closed \/ algo.pending_call_side_close) =>
                  /\ once.orders = <<SideCloseLegs(algo.trade, "call")>>
                  /\ once.algo = [algo EXCEPT !.pending_call_side_close = TRUE]
            /\ exit_call_side(once) = once
    IN  Checked(Run(algo), exit_call_side(Run(algo)))

PutCloseIdempotent ==
    LET Checked(st, once) ==
            /\ (algo.put_side_closed \/ algo.pending_put_side_close) => once = st
            /\ ~(algo.put_side_closed \/ algo.pending_put_side_close) =>
                  /\ once.orders = <<SideCloseLegs(algo.trade, "put")>>
                  /\ once.algo = [algo EXCEPT !.pending_put_side_close = TRUE]
            /\ exit_put_side(once) = once
    IN  Checked(Run(algo), exit_put_side(Run(algo)))

\* C37: while a side of the current Trade is pending-close or closed, a call of
\* exit_call_side / exit_put_side for it submits no order and changes no state,
\* so that a second call right after a first changes nothing; and a monitoring
\* run submits at most one partial close per side of the Trade it found, none
\* for a side that was pending-close or closed
PartialCloseIdempotent ==
    pc = "live" =>
       /\ algo.trade # None => (CallCloseIdempotent /\ PutCloseIdempotent)
       /\ (/\ tick.handler = "monitor_positions"
           /\ tick.pre.trade # None
           /\ ~Monitored("profit_target")
           /\ ~Monitored("max_loss")) =>
             \A side \in {"call", "put"} :
                /\ Cardinality(PartialClosesOf(side)) <= 1
                /\ ClosedOrPending(side) => PartialClosesOf(side) = {}

\* a monitoring run took the cheap-buyback rule for the call side while the
\* close of that side was already pending, and submitted nothing for it
PartialCloseIdempotentWitness ==
    /\ pc = "live"
    /\ tick.handler = "monitor_positions"
    /\ Monitored("cheap_call")
    /\ tick.pre.pending_call_side_close
    /\ PartialClosesOf("call") = {}
    /\ algo.trade # None
    /\ algo.pending_call_side_close

---------------------------------------------------------------------------
(* The strategy that retries a failed search:                                *)
(* trade_lab/qc/SPXW1DTEIronCondor.py (RetrySpec)                            *)

\* self.max_search_attempts of the retrying strategy
LabMaxSearchAttempts == 5

\* the days 0 .. RetryDays are observed
RetryDays == 1

\* the attributes initialize() sets
LabFresh ==
    [trade |-> None, position_entered |-> FALSE,
     call_side_tested |-> FALSE, put_side_tested |-> FALSE,
     call_side_closed |-> FALSE, put_side_closed |-> FALSE]

\* IronCondorFinder(...) of initialize, with max_tweak_attempts cut down to the
\* bound of the model
LabFinder ==
    WithAttempts(CHOOSE t \in Thresholds :
                    t.spread_width = 20 /\ t.credit_balance_ratio.num = 6,
                 MaxTweakAttempts)

\* lambda: self.search_and_enter_iron_condor(attempt + 1), registered with
\* date_rules.today on the given day
Callback(day, attempt) == [day |-> day, attempt |-> attempt]

\* a handler run and the callbacks it registered
Outcome(st, registered) == [st |-> st, registered |-> registered]

\* enter_position(call_spread, put_spread, tweak_count, spx_price, straddle_price)
lab_enter_position(st, cs, ps) ==
    LET total_credit == cs.price + ps.price
        legs == << Leg(Symbol(ps.long_leg), 1), Leg(Symbol(ps.short_leg), -1),
                   Leg(Symbol(cs.short_leg), -1), Leg(Symbol(cs.long_leg), 1) >>
        trade == [entry_credit |-> total_credit,
                  call_credit |-> cs.price,
                  put_credit |-> ps.price,
                  profit_target |-> ProfitTargetOf(total_credit),
                  max_loss |-> MaxLossOf(total_credit),
                  long_put |-> Symbol(ps.long_leg),
                  short_put |-> Symbol(ps.short_leg),
                  short_call |-> Symbol(cs.short_leg),
                  long_call |-> Symbol(cs.long_leg),
                  expiry |-> cs.short_leg.expiry]
    IN  [combo_market_order(st, legs) EXCEPT
            !.algo = [trade |-> trade, position_entered |-> TRUE,
                      call_side_tested |-> FALSE, put_side_tested |-> FALSE,
                      call_side_closed |-> FALSE, put_side_closed |-> FALSE]]

\* search_and_enter_iron_condor without the limit on attempt
search_and_enter_unbounded(st, m, t, c, attempt) ==
    LET chain == OptionChain(m, t.day)
        tomorrow == SelectSeq(chain, LAMBDA x : x.expiry = t.day + 1)
    IN  IF chain = << >> THEN Outcome(Took(st, "no_chain"), {})
        ELSE IF tomorrow = << >> THEN Outcome(Took(st, "no_contracts"), {})
        ELSE LET found == find_iron_condor(tomorrow, m.spx, c)
                 searched == Took(st, "search")
             IN  IF found.kind = "raise"
                 THEN Outcome([Took(searched, found.what) EXCEPT !.fault = TRUE], {})
                 ELSE IF found.kind = "ok"
                 THEN Outcome(lab_enter_position(Took(searched, "enter"),
                                                 found.call_spread, found.put_spread), {})
                 ELSE Outcome(Took(searched, "retry"), {Callback(t.day, attempt + 1)})

\* search_and_enter_iron_condor(attempt): the step "search" says that
\* find_iron_condor was called
search_and_enter_iron_condor(st, m, t, c, attempt) ==
    LET chain == OptionChain(m, t.day)
        tomorrow == SelectSeq(chain, LAMBDA x : x.expiry = t.day + 1)
    IN  IF attempt >= LabMaxSearchAttempts THEN Outcome(Took(st, "attempts"), {})
        ELSE IF chain = << >> THEN Outcome(Took(st, "no_chain"), {})
        ELSE IF tomorrow = << >> THEN Outcome(Took(st, "no_contracts"), {})
        ELSE LET found == find_iron_condor(tomorrow, m.spx, c)
                 searched == Took(st, "search")
             IN  IF found.kind = "raise"
                 THEN Outcome([Took(searched, found.what) EXCEPT !.fault = TRUE], {})
                 ELSE IF found.kind = "ok"
                 THEN Outcome(lab_enter_position(Took(searched, "enter"),
                                                 found.call_spread, found.put_spread), {})
                 ELSE Outcome(Took(searched, "retry"), {Callback(t.day, attempt + 1)})

\* what keeps check_entry from searching: the market is closed, tomorrow is a
\* weekend day, the VIX term structure is not in contango, or nothing
EntryGates == {"market_closed", "weekend", "no_contango", "none"}

\* check_entry() after warm-up
lab_check_entry(a, m, t, c, gate) ==
    IF a.position_entered THEN Outcome(Took(Run(a), "entered"), {})
    ELSE IF gate # "none" THEN Outcome(Took(Run(a), gate), {})
    ELSE search_and_enter_iron_condor(Run(a), m, t, c, 0)

\* is_0dte()
lab_is_0dte(a, t) == IF a.trade = None THEN FALSE ELSE a.trade.expiry = t.day

\* calculate_pnl(), cents
lab_calculate_pnl(a, m, today) ==
    (IF ~a.call_side_closed
     THEN a.trade.call_credit - (Security(m, today, a.trade.short_call).price
                                   - Security(m, today, a.trade.long_call).price)
     ELSE a.trade.call_credit)
    + (IF ~a.put_side_closed
       THEN a.trade.put_credit - (Security(m, today, a.trade.short_put).price
                                    - Security(m, today, a.trade.long_put).price)
       ELSE a.trade.put_credit)

\* exit_position(reason)
lab_exit_position(st) ==
    LET a == st.algo
        put_legs == IF ~a.put_side_closed
                    THEN << Leg(a.trade.long_put, -1), Leg(a.trade.short_put, 1) >>
                    ELSE << >>
        call_legs == IF ~a.call_side_closed
                     THEN << Leg(a.trade.short_call, 1), Leg(a.trade.long_call, -1) >>
                     ELSE << >>
        legs == put_legs \o call_legs
    IN  IF ~a.position_entered THEN st
        ELSE IF legs = << >>
        THEN [st EXCEPT !.algo.position_entered = FALSE, !.algo.trade = None]
        ELSE [combo_market_order(st, legs) EXCEPT !.algo = LabFresh]

\* monitor_positions() after warm-up; hour 9 stands for 9:00 to 9:29
lab_monitor_positions(a, m, t) ==
    LET st == Run(a)
    IN  IF ~a.position_entered \/ a.trade = None THEN Took(st, "idle")
        ELSE IF lab_is_0dte(a, t) /\ t.hour = 9 THEN Took(st, "first_hour")
        ELSE LET current_pnl == lab_calculate_pnl(a, m, t.day)
                 valued == [st EXCEPT !.pnl = Append(@, current_pnl)]
             IN  IF 10 * current_pnl >= a.trade.profit_target
                 THEN lab_exit_position(Took(valued, "profit_target"))
                 ELSE IF 10 * current_pnl <= a.trade.max_loss
                 THEN lab_exit_position(Took(valued, "max_loss"))
                 ELSE Took(valued, "hold")

\* late_exit() after warm-up
lab_late_exit(a, t) ==
    IF lab_is_0dte(a, t) /\ a.position_entered
    THEN lab_exit_position(Took(Run(a), "late_exit"))
    ELSE Took(Run(a), "idle")

\* the times of a day at which the engine is observed: 9:00, mid-morning, the
\* 13:30 late exit and the 15:50 entry
RetryHours == <<9, 10, 13, 15>>

LateExitHour == 13

LabEntryHour == 15

\* the slices of the retrying strategy: a condor is found, the search fails, the
\* legs lose their value, the legs gain value, nothing is listed
RetryMarkets == LongRunMarkets

LabNoTick == Ticked("none", LabFresh, Run(LabFresh), NoEvent)

\* the attempt argument of the search a callback made
Attempt(n) == [status |-> "attempt", symbol |-> n]

\* the number of find_iron_condor calls of a handler run
Searches(st) == Cardinality({i \in DOMAIN st.path : st.path[i] = "search"})

\* the net quantities submitted so far, and the find_iron_condor calls made since
\* the scheduled check_entry last ran
LabBooked(l, st, searches) ==
    [net |-> Submitted(l.net, st.orders, 1), searches |-> searches]

\* the engine: the clock moves to the next observed time, or stays within the hour,
\* and a new slice arrives; a callback registered for a day that is over is never
\* called
RetryMoves ==
    /\ pc = "retry"
    /\ \E h \in DOMAIN RetryHours :
          /\ RetryHours[h] = now.hour
          /\ \/ now' = [now EXCEPT !.ran = @ \ {"monitor_positions"}]
             \/ /\ h < Len(RetryHours)
                /\ now' = [day |-> now.day, hour |-> RetryHours[h + 1], ran |-> {}]
             \/ /\ h = Len(RetryHours)
                /\ now.day < RetryDays
                /\ now' = [day |-> now.day + 1, hour |-> RetryHours[1], ran |-> {}]
    /\ market' \in RetryMarkets
    /\ schedule' = {cb \in schedule : cb.day = now'.day}
    /\ tick' = LabNoTick
    /\ UNCHANGED <<algo, pc, ledger>>
    /\ UNCHANGED <<contracts, spx_price, cfg, calls, puts, call_spread, put_spread,
                   tweak_attempts, result, hist, probe>>

\* the scheduled check_entry at 15:50
LabCheckEntry ==
    /\ pc = "retry"
    /\ now.hour = LabEntryHour
    /\ "check_entry" \notin now.ran
    /\ now' = [now EXCEPT !.ran = @ \cup {"check_entry"}]
    /\ \E gate \in EntryGates :
          \E out \in {lab_check_entry(algo, market, now, cfg, gate)} :
              /\ algo' = out.st.algo
              /\ schedule' = schedule \cup out.registered
              /\ tick' = Ticked("check_entry", algo, out.st, Attempt(0))
              /\ ledger' = LabBooked(ledger, out.st, Searches(out.st))
              /\ pc' = IF out.st.fault THEN "halted" ELSE "retry"
    /\ UNCHANGED <<market, contracts, spx_price, cfg, calls, puts, call_spread,
                   put_spread, tweak_attempts, result, hist, probe>>

\* the engine calls a callback registered for today, once
RetryFires ==
    /\ pc = "retry"
    /\ \E cb \in schedule :
          /\ cb.day = now.day
          /\ \E out \in {search_and_enter_iron_condor(Run(algo), market, now, cfg,
                                                       cb.attempt)} :
                /\ algo' = out.st.algo
                /\ schedule' = (schedule \ {cb}) \cup out.registered
                /\ tick' = Ticked("retry", algo, out.st, Attempt(cb.attempt))
                /\ ledger' = LabBooked(ledger, out.st, ledger.searches + Searches(out.st))
                /\ pc' = IF out.st.fault THEN "halted" ELSE "retry"
    /\ UNCHANGED <<now, market, contracts, spx_price, cfg, calls, puts, call_spread,
                   put_spread, tweak_attempts, result, hist, probe>>

\* the scheduled late_exit at 13:30
LabLateExit ==
    /\ pc = "retry"
    /\ now.hour = LateExitHour
    /\ "late_exit" \notin now.ran
    /\ now' = [now EXCEPT !.ran = @ \cup {"late_exit"}]
    /\ \E st \in {lab_late_exit(algo, now)} :
          /\ algo' = st.algo
          /\ tick' = Ticked("late_exit", algo, st, NoEvent)
          /\ ledger' = LabBooked(ledger, st, ledger.searches)
    /\ UNCHANGED <<market, pc, schedule, contracts, spx_price, cfg, calls, puts,
                   call_spread, put_spread, tweak_attempts, result, hist, probe>>

\* the scheduled monitor_positions, every five minutes
LabMonitorPositions ==
    /\ pc = "retry"
    /\ "monitor_positions" \notin now.ran
    /\ now' = [now EXCEPT !.ran = @ \cup {"monitor_positions"}]
    /\ \E st \in {lab_monitor_positions(algo, market, now)} :
          /\ algo' = st.algo
          /\ tick' = Ticked("monitor_positions", algo, st, NoEvent)
          /\ ledger' = LabBooked(ledger, st, ledger.searches)
    /\ UNCHANGED <<market, pc, schedule, contracts, spx_price, cfg, calls, puts,
                   call_spread, put_spread, tweak_attempts, result, hist, probe>>

RetryInit ==
    /\ contracts = << >>
    /\ spx_price = 10000
    /\ cfg = LabFinder
    /\ pc = "retry"
    /\ calls = << >>
    /\ puts = << >>
    /\ call_spread = None
    /\ put_spread = None
    /\ tweak_attempts = 0
    /\ result = NoResult
    /\ hist = NoHist
    /\ probe = None
    /\ algo = LabFresh
    /\ now = [day |-> 0, hour |-> RetryHours[1], ran |-> {}]
    /\ market \in RetryMarkets
    /\ tick = LabNoTick
    /\ ledger = [net |-> {}, searches |-> 0]
    /\ schedule = {}

RetryNext ==
    RetryMoves \/ LabCheckEntry \/ RetryFires \/ LabLateExit \/ LabMonitorPositions

RetrySpec == RetryInit /\ [][RetryNext]_vars

---------------------------------------------------------------------------
(* Retried searches and the position (RetrySpec) *)

\* what the account holds of a Trade: one long and one short contract a side
HeldLegs(trade) ==
    {[symbol |-> trade.long_put, quantity |-> 1],
     [symbol |-> trade.short_put, quantity |-> -1],
     [symbol |-> trade.short_call, quantity |-> -1],
     [symbol |-> trade.long_call, quantity |-> 1]}

\* the last handler run entered a position
Entered == \E i \in DOMAIN tick.path : tick.path[i] = "enter"

\* C38: in the strategy that registers a retry callback when the search fails,
\* a chain of retries that starts at the scheduled check_entry calls
\* find_iron_condor at most max_search_attempts times: at most one callback is
\* pending, it is for today and carries the number of searches made so far; no
\* callback is pending while a position is entered, every entry is made with no
\* position entered and no Trade present, and the account holds exactly the four
\* legs of the current Trade, nothing when there is none
RetriesDoNotStack ==
    pc \in {"retry", "halted"} =>
       /\ ledger.searches <= LabMaxSearchAttempts
       /\ Cardinality(schedule) <= 1
       /\ \A cb \in schedule :
             /\ cb.day = now.day
             /\ cb.attempt \in 1 .. LabMaxSearchAttempts
             /\ cb.attempt = ledger.searches
       /\ algo.position_entered => schedule = {}
       /\ algo.position_entered <=> algo.trade # None
       /\ (tick.handler \in {"check_entry", "retry"} /\ Entered) =>
             /\ ~tick.pre.position_entered
             /\ tick.pre.trade = None
             /\ Len(tick.orders) = 1
       /\ ledger.net = IF algo.trade = None THEN {} ELSE HeldLegs(algo.trade)

\* the last search a chain may make, the one with attempt max_search_attempts - 1,
\* was made by a retry callback on a later day and entered a position
RetriesDoNotStackWitness ==
    /\ pc = "retry"
    /\ tick.handler = "retry"
    /\ tick.event.symbol = LabMaxSearchAttempts - 1
    /\ Entered
    /\ now.day > 0
    /\ ledger.searches = LabMaxSearchAttempts
    /\ algo.position_entered

====
